---------------------------- MODULE Spec2Model ----------------------------
(***************************************************************************)
(* A model of the "sauve qui peut" maze game: the symbol codec             *)
(* (SQP-server/src/encoder.rs, SQP-client/src/decoder.rs), the radar frame *)
(* codec and view projector (SQP-server/src/main.rs encode_radar_view,     *)
(* SQP-client/src/player.rs parse_passages / parse_cells), the maze        *)
(* generator (SQP-server/src/maze_generator.rs), the session between one   *)
(* server connection handler and one player thread, a player thread        *)
(* against any peer, message framing with its log lines                    *)
(* (server_utils.rs, logger.rs), the locks of the server's connection      *)
(* threads and the secrets shared by the player threads of a client.       *)
(*                                                                         *)
(* Each subsystem has its own specification over its own variables; the    *)
(* variables of the other subsystems stay at their idle values.            *)
(***************************************************************************)
EXTENDS Integers, Sequences, FiniteSets, TLC

VARIABLES
    \* ---- symbol codec ----
    cPc,        \* "idle" | "bytes" | "text" | "encoded" | "decoded"
    cInput,     \* the byte sequence handed to encode
    cText,      \* a text: a sequence of characters (Unicode code points)
    cResult,    \* the Result of decode
    \* ---- maze generator ----
    gPc,        \* position inside generate_maze
    gWidth, gHeight,
    gCells,     \* cells[y][x] as a function from <<x, y>> to a Cell record
    gStack,     \* the backtracking stack of (x, y)
    gStart,     \* (start_x, start_y)
    gExit,      \* exit_position
    gHintsLeft, \* iterations left of the loop of place_hints
    \* ---- radar frame codec / view projector ----
    rPc,        \* "idle" | "start" | "encoded" | "parsed" | "payload" | "payload_parsed"
    rLab,       \* the Labyrinth given to encode_radar_view
    rPos, rDir, \* player_position, player_direction
    rServer,    \* what encode_radar_view built: passages words, cell_values, data, text
    rClient,    \* what the client parsed: horizontal, vertical, cells
    \* ---- session: the server, one connection handler and its player thread ----
    sLab,       \* ServerState.labyrinth
    sTeams,     \* ServerState.teams: the Team records, one per name
    sTokens,    \* number of registration tokens generated so far
    sPlayers,   \* ServerState.players: the Player records, one per key
    sNextId,    \* ServerState.next_player_id
    sKey,       \* handle_client's player_key: None or Some(key)
    sPc,        \* the connection handler: "idle" (no connection) | "serving"
    sLast,      \* the locals of the last MoveTo the handler handled, <<>> before
    c2s, s2c,   \* the two directions of the TCP stream: sequences of messages
    pPc,        \* the player thread's position
    pMode,      \* "fallback" (search_for_exit) | "smart" (search_for_exit_smart)
    pView,      \* fallback: the passages parsed last (horizontal, vertical)
    pMap,       \* smart: map
    pNorthAt,   \* smart: north_at
    pNext,      \* smart: next_direction.direction of the current iteration
    pResp,      \* the message received last: None or Some(message)
    pSent,      \* number of MoveTo sent by the player thread
    pThreads,   \* number of player threads started so far
    \* ---- message framing and the log files ----
    wPc,        \* "idle" | "call" | "done"
    wLog,       \* what log_message meets: the state of LOG_MAP and of the file
    wCall,      \* the call: send_message of a text, or receive_message of a stream
    wOut,       \* the Result, and the bytes written to the stream
    \* ---- the locks of the server's connection threads ----
    kPc,        \* the position of each connection thread
    kReq,       \* the message each connection thread handles
    kState,     \* the thread holding the ServerState mutex, 0 for none
    kLog,       \* the thread holding the LOG_MAP mutex, 0 for none
    \* ---- the secrets of the player threads of a client process ----
    hPc,        \* the position of the thread in resolve_challenge
    hTable,     \* SECRET_MAP: the pairs <<player name, secret>>, one per name
    hRead,      \* resolve_challenge: the modulus, the secrets collected, the sum
    hAnswer,    \* the answer sent: None or Some(answer)
    hHints,     \* number of handle_hint calls of the sibling threads so far
    \* ---- the connections of the server side by side ----
    nPc,        \* each connection: "none" (not accepted) | "open" | "closed"
    nKey,       \* handle_client's player_key of each connection: None or Some(key)
    nId         \* the id of the Player each connection stored last: None or Some(id)

codecVars == <<cPc, cInput, cText, cResult>>
mazeVars  == <<gPc, gWidth, gHeight, gCells, gStack, gStart, gExit, gHintsLeft>>
radarVars == <<rPc, rLab, rPos, rDir, rServer, rClient>>
sessVars  == <<sLab, sTeams, sTokens, sPlayers, sNextId, sKey, sPc, sLast, c2s, s2c,
               pPc, pMode, pView, pMap, pNorthAt, pNext, pResp, pSent, pThreads>>
logVars   == <<wPc, wLog, wCall, wOut>>
lockVars  == <<kPc, kReq, kState, kLog>>
secretVars == <<hPc, hTable, hRead, hAnswer, hHints>>
connVars  == <<nPc, nKey, nId>>
auxVars   == <<logVars, lockVars, secretVars, connVars>>
vars == <<codecVars, mazeVars, radarVars, sessVars, auxVars>>

\* the idle value of a string-valued variable
None == "none"

\* Option<T>: <<>> is None and <<v>> is Some(v)
NoneOpt == <<>>
Some(v) == <<v>>

-----------------------------------------------------------------------------
(* Machine arithmetic on unsigned integers.                                 *)

RECURSIVE Pow2(_)
Pow2(n) == IF n = 0 THEN 1 ELSE 2 * Pow2(n - 1)

\* x >> n
Shr(x, n) == x \div Pow2(n)

\* x << n on a w-bit unsigned integer: the bits shifted out are lost
Shl(x, n, w) == (x * Pow2(n)) % Pow2(w)

RECURSIVE BitAnd(_, _)
BitAnd(a, b) ==
    IF a = 0 \/ b = 0 THEN 0
    ELSE (IF a % 2 = 1 /\ b % 2 = 1 THEN 1 ELSE 0) + 2 * BitAnd(a \div 2, b \div 2)

RECURSIVE BitOr(_, _)
BitOr(a, b) ==
    IF a = 0 THEN b
    ELSE IF b = 0 THEN a
    ELSE (IF a % 2 = 1 \/ b % 2 = 1 THEN 1 ELSE 0) + 2 * BitOr(a \div 2, b \div 2)

\* !m on a w-bit unsigned integer
BitNot(m, w) == Pow2(w) - 1 - m

Min(a, b) == IF a < b THEN a ELSE b
Max(a, b) == IF a > b THEN a ELSE b

\* s[i] with Rust's 0-based index
At(s, i) == s[i + 1]

\* all sequences over S of length at most n
SeqsUpTo(S, n) == UNION {[1..k -> S] : k \in 0..n}

-----------------------------------------------------------------------------
(* Symbol codec.  A character is its Unicode code point.                    *)

\* "abcdefghijklmnopqrstuvwxyzABCDEFGHIJKLMNOPQRSTUVWXYZ0123456789+/"
chars ==
    [i \in 1..64 |->
        IF i <= 26 THEN 97 + (i - 1)
        ELSE IF i <= 52 THEN 65 + (i - 27)
        ELSE IF i <= 62 THEN 48 + (i - 53)
        ELSE IF i = 63 THEN 43 ELSE 47]

\* the number of bytes of the UTF-8 encoding of a char (what str::len counts)
Utf8Len(c) == IF c < 128 THEN 1 ELSE IF c < 2048 THEN 2 ELSE IF c < 65536 THEN 3 ELSE 4

RECURSIVE StrLen(_)
StrLen(t) == IF t = <<>> THEN 0 ELSE Utf8Len(Head(t)) + StrLen(Tail(t))

\* char_to_value with the upper-case letters given the values of the lower-case
char_to_valueFolded(c) ==
    IF c >= 97 /\ c <= 122 THEN Some(c - 97)
    ELSE IF c >= 65 /\ c <= 90 THEN Some(c - 65)
    ELSE IF c >= 48 /\ c <= 57 THEN Some(c - 48 + 52)
    ELSE IF c = 43 THEN Some(62)
    ELSE IF c = 47 THEN Some(63)
    ELSE NoneOpt

char_to_value(c) ==
    IF c >= 97 /\ c <= 122 THEN Some(c - 97)
    ELSE IF c >= 65 /\ c <= 90 THEN Some(c - 65 + 26)
    ELSE IF c >= 48 /\ c <= 57 THEN Some(c - 48 + 52)
    ELSE IF c = 43 THEN Some(62)
    ELSE IF c = 47 THEN Some(63)
    ELSE NoneOpt

\* the loop of encode pushing four characters for every chunk
RECURSIVE EncodeFromPadded(_, _)
EncodeFromPadded(input, i) ==
    IF ~(i < Len(input)) THEN <<>>
    ELSE
        LET b0 == At(input, i)
            b1 == IF i + 1 < Len(input) THEN At(input, i + 1) ELSE 0
            b2 == IF i + 2 < Len(input) THEN At(input, i + 2) ELSE 0
            c0 == BitAnd(Shr(b0, 2), 63)
            c1 == BitOr(Shl(BitAnd(b0, 3), 4, 8), BitAnd(Shr(b1, 4), 15))
            c2 == BitOr(Shl(BitAnd(b1, 15), 2, 8), BitAnd(Shr(b2, 6), 3))
            c3 == BitAnd(b2, 63)
        IN  <<chars[c0 + 1], chars[c1 + 1], chars[c2 + 1], chars[c3 + 1]>>
            \o EncodeFromPadded(input, i + 3)

RECURSIVE EncodeFrom(_, _)
EncodeFrom(input, i) ==
    IF ~(i < Len(input)) THEN <<>>
    ELSE
        LET b0 == At(input, i)
            b1 == IF i + 1 < Len(input) THEN At(input, i + 1) ELSE 0
            b2 == IF i + 2 < Len(input) THEN At(input, i + 2) ELSE 0
            c0 == BitAnd(Shr(b0, 2), 63)
            c1 == BitOr(Shl(BitAnd(b0, 3), 4, 8), BitAnd(Shr(b1, 4), 15))
            c2 == BitOr(Shl(BitAnd(b1, 15), 2, 8), BitAnd(Shr(b2, 6), 3))
            c3 == BitAnd(b2, 63)
        IN  <<chars[c0 + 1], chars[c1 + 1]>>
            \o (IF i + 1 < Len(input) THEN <<chars[c2 + 1]>> ELSE <<>>)
            \o (IF i + 2 < Len(input) THEN <<chars[c3 + 1]>> ELSE <<>>)
            \o EncodeFrom(input, i + 3)

encode(input) == EncodeFrom(input, 0)

Ok(bytes) == [tag |-> "Ok", bytes |-> bytes, ch |-> 0]
Err(tag, c) == [tag |-> tag, bytes |-> <<>>, ch |-> c]

\* the first loop of decode: the values, or the first character with no value
RECURSIVE DecodeValuesFrom(_, _, _)
DecodeValuesFrom(t, i, values) ==
    IF ~(i < Len(t)) THEN [bad |-> FALSE, values |-> values, ch |-> 0]
    ELSE IF char_to_value(At(t, i)) = NoneOpt
         THEN [bad |-> TRUE, values |-> <<>>, ch |-> At(t, i)]
         ELSE DecodeValuesFrom(t, i + 1, values \o char_to_value(At(t, i)))

DecodeValues(t) == DecodeValuesFrom(t, 0, <<>>)

\* DecodeChunk with the fourth symbol left out of the third byte
DecodeChunkNoV3(values, i, chunk_len) ==
    LET v0 == At(values, i)
        v1 == IF i + 1 < Len(values) THEN At(values, i + 1) ELSE 0
        v2 == IF i + 2 < Len(values) THEN At(values, i + 2) ELSE 0
        b0 == BitOr(Shl(v0, 2, 8), Shr(v1, 4))
        b1 == BitOr(Shl(BitAnd(v1, 15), 4, 8), Shr(v2, 2))
        b2 == Shl(BitAnd(v2, 3), 6, 8)
    IN  <<b0>>
        \o (IF chunk_len >= 3 THEN <<b1>> ELSE <<>>)
        \o (IF chunk_len = 4 THEN <<b2>> ELSE <<>>)

\* the bytes one group of decode pushes
DecodeChunk(values, i, chunk_len) ==
    LET v0 == At(values, i)
        v1 == IF i + 1 < Len(values) THEN At(values, i + 1) ELSE 0
        v2 == IF i + 2 < Len(values) THEN At(values, i + 2) ELSE 0
        v3 == IF i + 3 < Len(values) THEN At(values, i + 3) ELSE 0
        b0 == BitOr(Shl(v0, 2, 8), Shr(v1, 4))
        b1 == BitOr(Shl(BitAnd(v1, 15), 4, 8), Shr(v2, 2))
        b2 == BitOr(Shl(BitAnd(v2, 3), 6, 8), v3)
    IN  <<b0>>
        \o (IF chunk_len >= 3 THEN <<b1>> ELSE <<>>)
        \o (IF chunk_len = 4 THEN <<b2>> ELSE <<>>)

\* the second loop of decode
RECURSIVE DecodeFrom(_, _, _)
DecodeFrom(values, i, output) ==
    IF ~(i < Len(values)) THEN Ok(output)
    ELSE LET chunk_len == Min(4, Len(values) - i)
         IN  IF chunk_len < 2 THEN Err("InvalidSegmentSize", 0)
             ELSE DecodeFrom(values, i + 4, output \o DecodeChunk(values, i, chunk_len))

\* decode with the size check after the character check
decodeCharsFirst(input) ==
    LET v == DecodeValues(input)
    IN  IF v.bad THEN Err("UnauthorizedCharacter", v.ch)
        ELSE IF StrLen(input) % 4 = 1 THEN Err("InvalidSize", 0)
        ELSE DecodeFrom(v.values, 0, <<>>)

decode(input) ==
    IF StrLen(input) % 4 = 1 THEN Err("InvalidSize", 0)
    ELSE LET v == DecodeValues(input)
         IN  IF v.bad THEN Err("UnauthorizedCharacter", v.ch)
             ELSE DecodeFrom(v.values, 0, <<>>)

-----------------------------------------------------------------------------
(* Maze generator (maze_generator.rs).                                      *)

MaxWidth == 3
MaxHeight == 3

Coords(w, h) == (0..(w - 1)) \X (0..(h - 1))

\* Cell::new()
NewCell ==
    [north_wall |-> TRUE, east_wall |-> TRUE, south_wall |-> TRUE, west_wall |-> TRUE,
     has_hint |-> FALSE, has_exit |-> FALSE, visited |-> FALSE]

\* the unvisited neighbours of the cell on top of the stack, in the order
\* North, East, South, West in which generate_maze collects them
Neighbors(cells, w, h, cx, cy) ==
    (IF cy > 0 /\ ~cells[<<cx, cy - 1>>].visited
        THEN <<[x |-> cx, y |-> cy - 1, d |-> "North"]>> ELSE <<>>)
    \o (IF cx < w - 1 /\ ~cells[<<cx + 1, cy>>].visited
        THEN <<[x |-> cx + 1, y |-> cy, d |-> "East"]>> ELSE <<>>)
    \o (IF cy < h - 1 /\ ~cells[<<cx, cy + 1>>].visited
        THEN <<[x |-> cx, y |-> cy + 1, d |-> "South"]>> ELSE <<>>)
    \o (IF cx > 0 /\ ~cells[<<cx - 1, cy>>].visited
        THEN <<[x |-> cx - 1, y |-> cy, d |-> "West"]>> ELSE <<>>)

\* RemoveWall clearing the flag of the current cell only
RemoveWallOneSide(cells, cx, cy, n) ==
    LET cur == <<cx, cy>>
        nxt == <<n.x, n.y>>
        opened ==
            CASE n.d = "North" -> [cells EXCEPT ![cur].north_wall = FALSE]
              [] n.d = "East" -> [cells EXCEPT ![cur].east_wall = FALSE]
              [] n.d = "South" -> [cells EXCEPT ![cur].south_wall = FALSE]
              [] n.d = "West" -> [cells EXCEPT ![cur].west_wall = FALSE]
    IN  [opened EXCEPT ![nxt].visited = TRUE]

\* remove the wall between the current cell and the chosen cell, mark the
\* chosen cell visited
RemoveWall(cells, cx, cy, n) ==
    LET cur == <<cx, cy>>
        nxt == <<n.x, n.y>>
        opened ==
            CASE n.d = "North" ->
                    [cells EXCEPT ![cur].north_wall = FALSE, ![nxt].south_wall = FALSE]
              [] n.d = "East" ->
                    [cells EXCEPT ![cur].east_wall = FALSE, ![nxt].west_wall = FALSE]
              [] n.d = "South" ->
                    [cells EXCEPT ![cur].south_wall = FALSE, ![nxt].north_wall = FALSE]
              [] n.d = "West" ->
                    [cells EXCEPT ![cur].west_wall = FALSE, ![nxt].east_wall = FALSE]
    IN  [opened EXCEPT ![nxt].visited = TRUE]

\* the neighbours find_farthest_point pushes for the cell (x, y), in its order
BfsNext(cells, w, h, x, y, dist) ==
    LET n == IF y > 0 /\ ~cells[<<x, y>>].north_wall /\ dist[<<x, y - 1>>] = NoneOpt
             THEN <<<<x, y - 1>>>> ELSE <<>>
        e == IF x < w - 1 /\ ~cells[<<x, y>>].east_wall /\ dist[<<x + 1, y>>] = NoneOpt
             THEN <<<<x + 1, y>>>> ELSE <<>>
        s == IF y < h - 1 /\ ~cells[<<x, y>>].south_wall /\ dist[<<x, y + 1>>] = NoneOpt
             THEN <<<<x, y + 1>>>> ELSE <<>>
        ww == IF x > 0 /\ ~cells[<<x, y>>].west_wall /\ dist[<<x - 1, y>>] = NoneOpt
             THEN <<<<x - 1, y>>>> ELSE <<>>
    IN  n \o e \o s \o ww

\* BfsLoop updating the farthest point on every cell that is at least as far
RECURSIVE BfsLoopLast(_, _, _, _, _, _, _, _)
BfsLoopLast(cells, w, h, queue, dist, farthest, max_distance, order) ==
    IF queue = <<>>
    THEN [point |-> farthest, dist |-> dist, max |-> max_distance, order |-> order]
    ELSE
        LET p == Head(queue)
            d == dist[p][1]
            far == IF d >= max_distance THEN p ELSE farthest
            mx == IF d >= max_distance THEN d ELSE max_distance
            new == BfsNext(cells, w, h, p[1], p[2], dist)
            dist2 == [c \in DOMAIN dist |->
                        IF \E k \in 1..Len(new) : new[k] = c THEN Some(d + 1) ELSE dist[c]]
        IN  BfsLoopLast(cells, w, h, Tail(queue) \o new, dist2, far, mx, Append(order, p))

\* the while-let loop of find_farthest_point; the result carries the distances
\* and the visiting order as well
RECURSIVE BfsLoop(_, _, _, _, _, _, _, _)
BfsLoop(cells, w, h, queue, dist, farthest, max_distance, order) ==
    IF queue = <<>>
    THEN [point |-> farthest, dist |-> dist, max |-> max_distance, order |-> order]
    ELSE
        LET p == Head(queue)
            d == dist[p][1]
            far == IF d > max_distance THEN p ELSE farthest
            mx == IF d > max_distance THEN d ELSE max_distance
            new == BfsNext(cells, w, h, p[1], p[2], dist)
            dist2 == [c \in DOMAIN dist |->
                        IF \E k \in 1..Len(new) : new[k] = c THEN Some(d + 1) ELSE dist[c]]
        IN  BfsLoop(cells, w, h, Tail(queue) \o new, dist2, far, mx, Append(order, p))

Bfs(cells, start, w, h) ==
    BfsLoop(cells, w, h, <<start>>,
            [c \in Coords(w, h) |-> IF c = start THEN Some(0) ELSE NoneOpt],
            start, 0, <<>>)

find_farthest_point(cells, start, w, h) == Bfs(cells, start, w, h).point

\* NumHints without the floor of one hint
NumHintsNoFloor(w, h) == Min(w, h) \div 2

\* let num_hints = (width.min(height) / 2).max(1)
NumHints(w, h) == Max(Min(w, h) \div 2, 1)

\* HintAdmissible without the test for the exit cell
HintAdmissibleAnyCell(cells, exit_pos, hx, hy) == ~cells[<<hx, hy>>].has_hint

\* the condition that ends the inner loop of place_hints
HintAdmissible(cells, exit_pos, hx, hy) ==
    (hx # exit_pos[1] \/ hy # exit_pos[2]) /\ ~cells[<<hx, hy>>].has_hint

\* the state after line 71: all walls present, a random start cell visited and
\* on the stack
MazeInit ==
    /\ gWidth \in 1..MaxWidth
    /\ gHeight \in 1..MaxHeight
    /\ gStart \in Coords(gWidth, gHeight)
    /\ gCells = [c \in Coords(gWidth, gHeight) |->
                    IF c = gStart THEN [NewCell EXCEPT !.visited = TRUE] ELSE NewCell]
    /\ gStack = <<gStart>>
    /\ gExit = <<>>
    /\ gHintsLeft = 0
    /\ gPc = "carve"

MazeIdle ==
    /\ gWidth = 0 /\ gHeight = 0 /\ gStart = <<>> /\ gCells = <<>>
    /\ gStack = <<>> /\ gExit = <<>> /\ gHintsLeft = 0 /\ gPc = "idle"

\* one iteration of the carving loop with unvisited neighbours
Carve ==
    /\ gPc = "carve"
    /\ gStack # <<>>
    /\ LET cur == gStack[Len(gStack)]
           ns == Neighbors(gCells, gWidth, gHeight, cur[1], cur[2])
       IN  /\ ns # <<>>
           /\ \E k \in 1..Len(ns) :
                /\ gCells' = RemoveWall(gCells, cur[1], cur[2], ns[k])
                /\ gStack' = Append(gStack, <<ns[k].x, ns[k].y>>)
    /\ UNCHANGED <<gPc, gWidth, gHeight, gStart, gExit, gHintsLeft>>
    /\ UNCHANGED <<codecVars, radarVars, sessVars, auxVars>>

\* one iteration of the carving loop without: stack.pop()
Backtrack ==
    /\ gPc = "carve"
    /\ gStack # <<>>
    /\ LET cur == gStack[Len(gStack)]
       IN  Neighbors(gCells, gWidth, gHeight, cur[1], cur[2]) = <<>>
    /\ gStack' = SubSeq(gStack, 1, Len(gStack) - 1)
    /\ UNCHANGED <<gPc, gWidth, gHeight, gStart, gCells, gExit, gHintsLeft>>
    /\ UNCHANGED <<codecVars, radarVars, sessVars, auxVars>>

\* lines 131-133 and the entry of place_hints
PlaceExit ==
    /\ gPc = "carve"
    /\ gStack = <<>>
    /\ LET e == find_farthest_point(gCells, gStart, gWidth, gHeight)
       IN  /\ gExit' = e
           /\ gCells' = [gCells EXCEPT ![e].has_exit = TRUE]
    /\ gHintsLeft' = NumHints(gWidth, gHeight)
    /\ gPc' = "hints"
    /\ UNCHANGED <<gWidth, gHeight, gStart, gStack>>
    /\ UNCHANGED <<codecVars, radarVars, sessVars, auxVars>>

\* one draw of the inner loop of place_hints: an admissible cell gets the hint,
\* any other draw is repeated
PlaceHint ==
    /\ gPc = "hints"
    /\ gHintsLeft > 0
    /\ \E hx \in 0..(gWidth - 1), hy \in 0..(gHeight - 1) :
         IF HintAdmissible(gCells, gExit, hx, hy)
         THEN /\ gCells' = [gCells EXCEPT ![<<hx, hy>>].has_hint = TRUE]
              /\ gHintsLeft' = gHintsLeft - 1
         ELSE UNCHANGED <<gCells, gHintsLeft>>
    /\ UNCHANGED <<gPc, gWidth, gHeight, gStart, gStack, gExit>>
    /\ UNCHANGED <<codecVars, radarVars, sessVars, auxVars>>

\* lines 138-150: clear the visited flags and return the Maze
ReturnMaze ==
    /\ gPc = "hints"
    /\ gHintsLeft = 0
    /\ gCells' = [c \in DOMAIN gCells |-> [gCells[c] EXCEPT !.visited = FALSE]]
    /\ gPc' = "done"
    /\ UNCHANGED <<gWidth, gHeight, gStart, gStack, gExit, gHintsLeft>>
    /\ UNCHANGED <<codecVars, radarVars, sessVars, auxVars>>

-----------------------------------------------------------------------------
(* Idle values of the radar and session variables.                          *)

RadarIdle ==
    /\ rPc = "idle" /\ rLab = <<>> /\ rPos = <<>> /\ rDir = None
    /\ rServer = <<>> /\ rClient = <<>>

SessIdle ==
    /\ sLab = <<>> /\ sTeams = {} /\ sTokens = 0 /\ sPlayers = {} /\ sNextId = 0
    /\ sKey = NoneOpt /\ sPc = "idle" /\ sLast = <<>> /\ c2s = <<>> /\ s2c = <<>>
    /\ pPc = "idle" /\ pMode = None /\ pView = <<>> /\ pMap = <<>>
    /\ pNorthAt = None /\ pNext = None /\ pResp = NoneOpt /\ pSent = 0 /\ pThreads = 0

LogIdle == wPc = "idle" /\ wLog = None /\ wCall = <<>> /\ wOut = <<>>

LockIdle == kPc = <<>> /\ kReq = <<>> /\ kState = 0 /\ kLog = 0

SecretIdle ==
    hPc = "idle" /\ hTable = {} /\ hRead = <<>> /\ hAnswer = NoneOpt /\ hHints = 0

ConnIdle == nPc = <<>> /\ nKey = <<>> /\ nId = <<>>

AuxIdle == LogIdle /\ LockIdle /\ SecretIdle /\ ConnIdle

-----------------------------------------------------------------------------
(* Specification of the symbol codec: a byte sequence is encoded and the    *)
(* text decoded, or an arbitrary text is decoded.                           *)

MaxBytes == 4
MaxChars == 4

\* bytes with every bit field of the 6-bit packing empty, partly set and full
ByteSample == {0, 1, 15, 16, 65, 128, 255}

\* 'a' 'q' 'Z' '9' '+' '/' of the alphabet; '*' and '=' outside it; U+00E9 and
\* U+20AC outside it and 2 and 3 bytes long in UTF-8
CharSample == {97, 113, 90, 57, 43, 47, 42, 61, 233, 8364}

\* "sgvSBg8SifDVCMXKiq", the long text of test_decode_valid
HelloText ==
    <<115, 103, 118, 83, 66, 103, 56, 83, 105, 102, 68, 86, 67, 77, 88, 75, 105, 113>>

\* the texts of the tests that the sample cannot spell
VectorTexts == {HelloText}

NoResult == [tag |-> "none", bytes |-> <<>>, ch |-> 0]

CodecIdle == cPc = "idle" /\ cInput = <<>> /\ cText = <<>> /\ cResult = NoResult

CodecInit ==
    /\ cResult = NoResult
    /\ \/ cPc = "bytes" /\ cInput \in SeqsUpTo(ByteSample, MaxBytes) /\ cText = <<>>
       \/ cPc = "text" /\ cInput = <<>> /\ cText \in SeqsUpTo(CharSample, MaxChars) \cup VectorTexts

Encode ==
    /\ cPc = "bytes"
    /\ cText' = encode(cInput)
    /\ cPc' = "encoded"
    /\ UNCHANGED <<cInput, cResult>>
    /\ UNCHANGED <<mazeVars, radarVars, sessVars, auxVars>>

Decode ==
    /\ cPc \in {"encoded", "text"}
    /\ cResult' = decode(cText)
    /\ cPc' = IF cPc = "encoded" THEN "roundtrip" ELSE "decoded"
    /\ UNCHANGED <<cInput, cText>>
    /\ UNCHANGED <<mazeVars, radarVars, sessVars, auxVars>>

CodecNext == Encode \/ Decode

InitCodec == CodecInit /\ MazeIdle /\ RadarIdle /\ SessIdle /\ AuxIdle

SpecCodec == InitCodec /\ [][CodecNext]_vars

-----------------------------------------------------------------------------
(* Specification of the maze generator.                                     *)

MazeNext == Carve \/ Backtrack \/ PlaceExit \/ PlaceHint \/ ReturnMaze

InitMaze == MazeInit /\ CodecIdle /\ RadarIdle /\ SessIdle /\ AuxIdle

SpecMaze == InitMaze /\ [][MazeNext]_vars

\* the generation with its loops running on and fair random draws: a step
\* of the hint loop that is possible again and again is taken in the end
SpecMazeFair ==
    /\ SpecMaze
    /\ WF_vars(Carve) /\ WF_vars(Backtrack) /\ WF_vars(PlaceExit)
    /\ SF_vars(PlaceHint) /\ WF_vars(ReturnMaze)

-----------------------------------------------------------------------------
(* Labyrinths (main.rs generate_labyrinth, the fixtures of the tests).      *)

\* the side of the labyrinths the tests build by hand
FixtureSide == 3

\* the side the start positions and the clamps of the server assume
ArenaSide == 5

\* the seeds that resolve the draws of thread_rng
MaxSeed == 3

\* the next draw of a generator run
NextSeed(seed) == (seed * 5 + 3) % 16

\* the carving loop of generate_maze, its random choice taken from the seed
RECURSIVE CarveLoop(_, _, _, _, _)
CarveLoop(cells, stack, w, h, seed) ==
    IF stack = <<>> THEN cells
    ELSE
        LET cur == stack[Len(stack)]
            ns == Neighbors(cells, w, h, cur[1], cur[2])
        IN  IF ns # <<>>
            THEN LET n == ns[(seed % Len(ns)) + 1]
                 IN  CarveLoop(RemoveWall(cells, cur[1], cur[2], n),
                               Append(stack, <<n.x, n.y>>), w, h, NextSeed(seed))
            ELSE CarveLoop(cells, SubSeq(stack, 1, Len(stack) - 1), w, h, seed)

\* place_hints, its random draws taken from the seed
RECURSIVE PlaceHints(_, _, _, _, _, _)
PlaceHints(cells, w, h, exit_pos, left, seed) ==
    IF left = 0 THEN cells
    ELSE
        LET hx == seed % w
            hy == (seed \div 3) % h
        IN  IF HintAdmissible(cells, exit_pos, hx, hy)
            THEN PlaceHints([cells EXCEPT ![<<hx, hy>>].has_hint = TRUE],
                            w, h, exit_pos, left - 1, NextSeed(seed))
            ELSE PlaceHints(cells, w, h, exit_pos, left, NextSeed(seed))

\* generate_maze for one start cell and one seed
generate_maze(w, h, start, seed) ==
    LET cells0 == [c \in Coords(w, h) |->
                      IF c = start THEN [NewCell EXCEPT !.visited = TRUE] ELSE NewCell]
        carved == CarveLoop(cells0, <<start>>, w, h, seed)
        e == find_farthest_point(carved, start, w, h)
        hinted == PlaceHints([carved EXCEPT ![e].has_exit = TRUE], w, h, e,
                             NumHints(w, h), seed)
    IN  [width |-> w, height |-> h,
         cells |-> [c \in Coords(w, h) |-> [hinted[c] EXCEPT !.visited = FALSE]],
         exit_position |-> e]

\* generate_labyrinth: the maze without the visited flags
generate_labyrinth(w, h, start, seed) ==
    LET maze == generate_maze(w, h, start, seed)
    IN  [width |-> maze.width, height |-> maze.height,
         cells |-> [c \in Coords(w, h) |->
              [north_wall |-> maze.cells[c].north_wall,
               east_wall |-> maze.cells[c].east_wall,
               south_wall |-> maze.cells[c].south_wall,
               west_wall |-> maze.cells[c].west_wall,
               has_hint |-> maze.cells[c].has_hint,
               has_exit |-> maze.cells[c].has_exit]],
         exit_position |-> maze.exit_position]

\* the labyrinths of the tests: 3 x 3, the centre cell with the walls cw, every
\* other cell with all four walls or with none
FixtureLab(walled, cw) ==
    [width |-> FixtureSide, height |-> FixtureSide,
     cells |-> [c \in Coords(FixtureSide, FixtureSide) |->
          IF c = <<1, 1>>
          THEN [north_wall |-> "North" \in cw, east_wall |-> "East" \in cw,
                south_wall |-> "South" \in cw, west_wall |-> "West" \in cw,
                has_hint |-> FALSE, has_exit |-> FALSE]
          ELSE [north_wall |-> walled, east_wall |-> walled,
                south_wall |-> walled, west_wall |-> walled,
                has_hint |-> FALSE, has_exit |-> FALSE]],
     exit_position |-> <<2, 2>>]

MapDirections == {"North", "East", "South", "West"}

FixtureLabs == {FixtureLab(walled, cw) : walled \in BOOLEAN, cw \in SUBSET MapDirections}

\* the start cells drawn for the 5 x 5 labyrinths
ArenaStarts == {<<0, 0>>, <<2, 2>>}

GeneratedLabs(side, starts) ==
    {generate_labyrinth(side, side, start, seed) : start \in starts, seed \in 0..MaxSeed}

ArenaLabs == GeneratedLabs(ArenaSide, ArenaStarts)

-----------------------------------------------------------------------------
(* Specification of the exit and hint placement on larger mazes.            *)

\* the largest side of the mazes whose carving is resolved by a seed
MaxHintSide == 5

\* the state when the carving loop of generate_maze has ended, the random
\* choices of the loop taken from a seed
HintsInit ==
    /\ gWidth \in 1..MaxHintSide
    /\ gHeight \in 1..MaxHintSide
    /\ gStart = <<0, 0>>
    /\ \E seed \in 0..MaxSeed :
         gCells = CarveLoop([c \in Coords(gWidth, gHeight) |->
                                IF c = gStart THEN [NewCell EXCEPT !.visited = TRUE]
                                ELSE NewCell],
                            <<gStart>>, gWidth, gHeight, seed)
    /\ gStack = <<>>
    /\ gExit = <<>>
    /\ gHintsLeft = 0
    /\ gPc = "carve"

HintsNext == PlaceExit \/ PlaceHint \/ ReturnMaze

InitHints == HintsInit /\ CodecIdle /\ RadarIdle /\ SessIdle /\ AuxIdle

SpecHints == InitHints /\ [][HintsNext]_vars

-----------------------------------------------------------------------------
(* View projector (main.rs encode_cell, encode_radar_view).                 *)

\* a u64 as its 16 nibbles, nibble 0 the least significant
ZeroU64 == [k \in 0..15 |-> 0]

\* word | (value << (i * 4)) for a value below 16
OrNibble(word, i, value) == [word EXCEPT ![i] = BitOr(@, value)]

\* word << (4 * n) and word >> (4 * n)
ShlNibbles(word, n) == [k \in 0..15 |-> IF k >= n THEN word[k - n] ELSE 0]
ShrNibbles(word, n) == [k \in 0..15 |-> IF k + n <= 15 THEN word[k + n] ELSE 0]

\* ((word >> (8 * k)) & 0xFF) as u8
ByteOf(word, k) == word[2 * k] + 16 * word[2 * k + 1]

\* (word << 8) | byte
PushByte(word, byte) ==
    [ShlNibbles(word, 2) EXCEPT ![0] = byte % 16, ![1] = byte \div 16]

encode_cell(labyrinth, x, y) ==
    IF x < 0 \/ y < 0 \/ x >= labyrinth.width \/ y >= labyrinth.height
    THEN 15
    ELSE LET cell == labyrinth.cells[<<x, y>>]
             item_bits == IF cell.has_exit THEN 2 ELSE IF cell.has_hint THEN 1 ELSE 0
         IN  BitOr(Shl(item_bits, 2, 8), 0)

\* 0x55_55_55: every passage Open
AllOpen == 5592405

\* word &= !(0b11 << shift), on the 24 bits a passage word uses
ClearPassage(word, shift) == BitAnd(word, BitNot(Shl(3, shift, 24), 24))

\* the walls tested in the order of the North branch whatever the facing
BranchWallsUnrotated(player_direction) == <<"North", "East", "South", "West">>

\* the walls of the centre cell the four branches of encode_radar_view test,
\* in the order of their four if statements
BranchWalls(player_direction) ==
    CASE player_direction = "North" -> <<"North", "East", "South", "West">>
      [] player_direction = "South" -> <<"South", "West", "North", "East">>
      [] player_direction = "East" -> <<"East", "South", "West", "North">>
      [] player_direction = "West" -> <<"West", "North", "East", "South">>

HasWall(cell, d) ==
    CASE d = "North" -> cell.north_wall [] d = "East" -> cell.east_wall
      [] d = "South" -> cell.south_wall [] d = "West" -> cell.west_wall

RECURSIVE PackCells(_, _, _)
PackCells(cell_values, i, packed_cells) ==
    IF i >= Len(cell_values) THEN packed_cells
    ELSE PackCells(cell_values, i + 1, OrNibble(packed_cells, i, At(cell_values, i)))

\* encode_radar_view with the values it computes on the way
encode_radar_view(player_position, player_direction, labyrinth) ==
    LET x_center == player_position[1]
        y_center == player_position[2]
        center_cell == labyrinth.cells[<<x_center, y_center>>]
        b == BranchWalls(player_direction)
        h1 == IF HasWall(center_cell, b[1]) THEN ClearPassage(AllOpen, 6) ELSE AllOpen
        v1 == IF HasWall(center_cell, b[2]) THEN ClearPassage(AllOpen, 6) ELSE AllOpen
        horizontal_passages == IF HasWall(center_cell, b[3]) THEN ClearPassage(h1, 8) ELSE h1
        vertical_passages == IF HasWall(center_cell, b[4]) THEN ClearPassage(v1, 4) ELSE v1
        cell_values ==
            [k \in 1..9 |->
                encode_cell(labyrinth, x_center + ((k - 1) % 3) - 1,
                            y_center + ((k - 1) \div 3) - 1)]
        packed_cells == ShlNibbles(PackCells(cell_values, 0, ZeroU64), 1)
        data ==
            << BitAnd(horizontal_passages, 255),
               BitAnd(Shr(horizontal_passages, 8), 255),
               BitAnd(Shr(horizontal_passages, 16), 255),
               BitAnd(vertical_passages, 255),
               BitAnd(Shr(vertical_passages, 8), 255),
               BitAnd(Shr(vertical_passages, 16), 255),
               ByteOf(packed_cells, 0), ByteOf(packed_cells, 1), ByteOf(packed_cells, 2),
               ByteOf(packed_cells, 3), ByteOf(packed_cells, 4) >>
    IN  [horizontal_passages |-> horizontal_passages,
         vertical_passages |-> vertical_passages,
         cell_values |-> cell_values,
         data |-> data,
         encoded |-> encode(data)]

\* the match of process_move: the step and the new facing
MoveDelta(current_direction, move_direction) ==
    CASE move_direction = "Front" ->
            (CASE current_direction = "North" -> [dx |-> 0, dy |-> -1, dir |-> "North"]
               [] current_direction = "South" -> [dx |-> 0, dy |-> 1, dir |-> "South"]
               [] current_direction = "East" -> [dx |-> 1, dy |-> 0, dir |-> "East"]
               [] current_direction = "West" -> [dx |-> -1, dy |-> 0, dir |-> "West"])
      [] move_direction = "Back" ->
            (CASE current_direction = "North" -> [dx |-> 0, dy |-> 1, dir |-> "North"]
               [] current_direction = "South" -> [dx |-> 0, dy |-> -1, dir |-> "South"]
               [] current_direction = "East" -> [dx |-> -1, dy |-> 0, dir |-> "East"]
               [] current_direction = "West" -> [dx |-> 1, dy |-> 0, dir |-> "West"])
      [] move_direction = "Left" ->
            (CASE current_direction = "North" -> [dx |-> -1, dy |-> 0, dir |-> "West"]
               [] current_direction = "South" -> [dx |-> 1, dy |-> 0, dir |-> "East"]
               [] current_direction = "East" -> [dx |-> 0, dy |-> -1, dir |-> "North"]
               [] current_direction = "West" -> [dx |-> 0, dy |-> 1, dir |-> "South"])
      [] move_direction = "Right" ->
            (CASE current_direction = "North" -> [dx |-> 1, dy |-> 0, dir |-> "East"]
               [] current_direction = "South" -> [dx |-> -1, dy |-> 0, dir |-> "West"]
               [] current_direction = "East" -> [dx |-> 0, dy |-> 1, dir |-> "South"]
               [] current_direction = "West" -> [dx |-> 0, dy |-> -1, dir |-> "North"])

\* process_move: the step is clamped to 0..4 whatever the size of the labyrinth
process_move(x, y, current_direction, move_direction) ==
    LET m == MoveDelta(current_direction, move_direction)
        new_x == IF m.dx < 0 /\ x > 0 THEN x - 1
                 ELSE IF m.dx > 0 /\ x < 4 THEN x + 1 ELSE x
        new_y == IF m.dy < 0 /\ y > 0 THEN y - 1
                 ELSE IF m.dy > 0 /\ y < 4 THEN y + 1 ELSE y
    IN  <<new_x, new_y, m.dir>>

-----------------------------------------------------------------------------
(* Radar frame decoding on the client (player.rs).                          *)

BoundaryOf(passage_bits) ==
    CASE passage_bits = 0 -> "Undefined"
      [] passage_bits = 1 -> "Open"
      [] passage_bits = 2 -> "Wall"
      [] OTHER -> "Error"

\* the three bytes taken most significant first
parse_passagesBigEndian(bytes, num_passages) ==
    IF bytes = <<>> \/ num_passages = 0 THEN <<>>
    ELSE LET bits == BitOr(BitOr(Shl(bytes[1], 16, 24), Shl(bytes[2], 8, 24)), bytes[3])
         IN  [k \in 1..num_passages |->
                 BoundaryOf(BitAnd(Shr(bits, (num_passages - 1 - (k - 1)) * 2), 3))]

parse_passages(bytes, num_passages) ==
    IF bytes = <<>> \/ num_passages = 0 THEN <<>>
    ELSE LET \* a byte shifted left by 16 stays below 2^24: no bit of the u32 is lost
             bits == BitOr(BitOr(Shl(bytes[3], 16, 24), Shl(bytes[2], 8, 24)), bytes[1])
         IN  [k \in 1..num_passages |->
                 BoundaryOf(BitAnd(Shr(bits, (num_passages - 1 - (k - 1)) * 2), 3))]

RECURSIVE AssembleBytes(_, _, _)
AssembleBytes(data, i, bits) ==
    IF i >= Len(data) THEN bits
    ELSE AssembleBytes(data, i + 1, PushByte(bits, At(data, i)))

RadarCellOf(value) ==
    IF value = 15
    THEN [is_undefined |-> TRUE, item |-> "None", entity |-> "None"]
    ELSE LET item_bits == BitAnd(Shr(value, 2), 3)
             entity_bits == BitAnd(value, 3)
         IN  [is_undefined |-> FALSE,
              item |-> CASE item_bits = 1 -> "Hint" [] item_bits = 2 -> "Goal"
                         [] OTHER -> "None",
              entity |-> CASE entity_bits = 0 -> "None" [] entity_bits = 1 -> "Ally"
                           [] entity_bits = 2 -> "Enemy" [] OTHER -> "Monster"]

\* the cells are pushed for i = 8 down to 0
parse_cells(data) ==
    LET bits == ShrNibbles(AssembleBytes(data, 0, ZeroU64), 1)
    IN  [k \in 1..9 |-> RadarCellOf(bits[8 - (k - 1)])]

UndefinedCell ==
    [north |-> "Undefined", east |-> "Undefined", south |-> "Undefined",
     west |-> "Undefined", is_player_here |-> FALSE]

\* a Vec<Vec<MapCell>> as a sequence of rows; map[j][i] of the code is
\* At(At(map, j), i)
make_map_with_passages(h_passages, v_passages) ==
    [jj \in 1..3 |-> [ii \in 1..3 |->
        LET i == ii - 1
            j == jj - 1
        IN  [north |-> At(h_passages, (j * 3) + i),
             east |-> At(v_passages, (j * 3) + i + j + 1),
             south |-> At(h_passages, ((j + 1) * 3) + i),
             west |-> At(v_passages, (j * 3) + i + j),
             is_player_here |-> (i = 1 /\ j = 1)]]]

\* a message from the server: its JSON text is {"<type>":...}, and the text of
\* a RadarView carries the encoded view between quotes
RadarViewMsg(view) == [type |-> "RadarView", view |-> view]
PlainMsg(type) == [type |-> type, view |-> <<>>]

\* the words the client looks for, as characters
WordChars(word) ==
    CASE word = "Ok" -> <<79, 107>>
      [] word = "Hint" -> <<72, 105, 110, 116>>
      [] word = "Challenge" -> <<67, 104, 97, 108, 108, 101, 110, 103, 101>>
      [] word = "FoundExit" -> <<70, 111, 117, 110, 100, 69, 120, 105, 116>>
      [] word = "RadarView" -> <<82, 97, 100, 97, 114, 86, 105, 101, 119>>
      [] word = "CannotPassThroughWall" ->
            <<67, 97, 110, 110, 111, 116, 80, 97, 115, 115, 84, 104, 114, 111,
              117, 103, 104, 87, 97, 108, 108>>

\* the words in the part of the JSON text that the type of the message fixes
FixedWords(type) ==
    CASE type = "SubscribePlayerResultOk" -> {"Ok"}
      [] type = "RadarView" -> {"RadarView"}
      [] type = "Hint" -> {"Hint"}
      [] type = "FoundExit" -> {"FoundExit"}
      [] type = "CannotPassThroughWall" -> {"CannotPassThroughWall"}
      [] OTHER -> {}

\* str::contains on the text of a message
Contains(response, word) ==
    \/ word \in FixedWords(response.type)
    \/ \E k \in 0..(Len(response.view) - Len(WordChars(word))) :
            SubSeq(response.view, k + 1, k + Len(WordChars(word))) = WordChars(word)

NoRadar(response) ==
    \/ Contains(response, "CannotPassThroughWall")
    \/ Contains(response, "FoundExit")
    \/ Contains(response, "Hint")

\* parse_radar_response; a panic is the result with ok FALSE
parse_radar_response(response) ==
    IF NoRadar(response)
    THEN [ok |-> TRUE, cells |-> <<>>, horizontal_passages |-> <<>>,
          vertical_passages |-> <<>>]
    ELSE
        LET decoded_radar_data == decode(response.view)
            bytes == decoded_radar_data.bytes
        IN  IF response.view = <<>> \/ decoded_radar_data.tag # "Ok" \/ Len(bytes) # 11
            THEN [ok |-> FALSE, cells |-> <<>>, horizontal_passages |-> <<>>,
                  vertical_passages |-> <<>>]
            ELSE [ok |-> TRUE,
                  cells |-> parse_cells(SubSeq(bytes, 7, 11)),
                  horizontal_passages |-> parse_passages(SubSeq(bytes, 1, 3), 12),
                  vertical_passages |-> parse_passages(SubSeq(bytes, 4, 6), 12)]

\* parse_radar_response_smart; a panic is the result with ok FALSE
parse_radar_response_smart(response) ==
    IF NoRadar(response)
    THEN [ok |-> TRUE, map |-> <<<<UndefinedCell>>, <<UndefinedCell>>, <<UndefinedCell>>>>]
    ELSE LET r == parse_radar_response(response)
         IN  IF ~r.ok THEN [ok |-> FALSE, map |-> <<>>]
             ELSE [ok |-> TRUE,
                   map |-> make_map_with_passages(r.horizontal_passages,
                                                  r.vertical_passages)]

-----------------------------------------------------------------------------
(* The map builder and the navigators of the client (player.rs, models.rs). *)

\* turn_left turning the other way
turn_leftClockwise(current_direction) ==
    CASE current_direction = "Front" -> "Right"
      [] current_direction = "Right" -> "Back"
      [] current_direction = "Back" -> "Left"
      [] current_direction = "Left" -> "Front"
turn_left(current_direction) ==
    CASE current_direction = "Front" -> "Left"
      [] current_direction = "Left" -> "Back"
      [] current_direction = "Back" -> "Right"
      [] current_direction = "Right" -> "Front"

PassageIndex(next_direction) ==
    CASE next_direction = "Front" -> 4
      [] next_direction = "Right" -> 6
      [] next_direction = "Back" -> 7
      [] next_direction = "Left" -> 5

\* the passages is_direction_open indexes for a direction
PassagesFor(next_direction, h_passages, v_passages) ==
    IF next_direction \in {"Front", "Back"} THEN h_passages ELSE v_passages

\* is_direction_open, for passages long enough to be indexed
is_direction_open(next_direction, h_passages, v_passages) ==
    At(PassagesFor(next_direction, h_passages, v_passages),
       PassageIndex(next_direction)) = "Open"

\* the while loop at the top of the loop of search_for_exit: the direction it
\* leaves with, a panic on an index out of bounds, or no exit from the loop
\* when no direction is open
RECURSIVE TurnUntilOpen(_, _, _, _)
TurnUntilOpen(current_direction, h_passages, v_passages, turns) ==
    IF PassageIndex(current_direction)
         >= Len(PassagesFor(current_direction, h_passages, v_passages))
    THEN [kind |-> "panic", direction |-> current_direction]
    ELSE IF is_direction_open(current_direction, h_passages, v_passages)
    THEN [kind |-> "move", direction |-> current_direction]
    ELSE IF turns = 3
    THEN [kind |-> "spin", direction |-> current_direction]
    ELSE TurnUntilOpen(turn_left(current_direction), h_passages, v_passages, turns + 1)

Rows(map) == Len(map)
Cols(map) == Len(map[1])
Cell(map, i, j) == At(At(map, i), j)
InMap(map, i, j) == i >= 0 /\ i < Len(map) /\ j >= 0 /\ j < Len(At(map, i))

\* the positions with is_player_here among rows 0..rows-1 and columns
\* 0..cols-1
PlayerCells(map, rows, cols) ==
    {p \in (0..(rows - 1)) \X (0..(cols - 1)) :
        InMap(map, p[1], p[2]) /\ Cell(map, p[1], p[2]).is_player_here}

RowMajorBefore(p, q) == p[1] < q[1] \/ (p[1] = q[1] /\ p[2] <= q[2])

FirstOf(S) == CHOOSE p \in S : \A q \in S : RowMajorBefore(p, q)
LastOf(S) == CHOOSE p \in S : \A q \in S : RowMajorBefore(q, p)

\* the loops that look for the player: the last cell with is_player_here, or
\* the default when there is none
FindPlayer(map, default) ==
    LET S == PlayerCells(map, Rows(map), Cols(map))
    IN  IF S = {} THEN default ELSE LastOf(S)

BoundaryOn(cell, d) ==
    CASE d = "North" -> cell.north [] d = "East" -> cell.east
      [] d = "South" -> cell.south [] d = "West" -> cell.west

\* the cell the search goes to from (x, y), x being the row
StepTo(x, y, d) ==
    CASE d = "North" -> <<x - 1, y>> [] d = "East" -> <<x, y + 1>>
      [] d = "South" -> <<x + 1, y>> [] d = "West" -> <<x, y - 1>>

\* the guard against leaving the map in find_closest_open
NotAtEdge(map, x, y, d) ==
    CASE d = "North" -> x # 0
      [] d = "West" -> y # 0
      [] d = "South" -> x # Rows(map) - 1
      [] d = "East" -> y # Cols(map) - 1

MovePlayerFlag(map, x, y, t) ==
    [[map EXCEPT ![x + 1][y + 1].is_player_here = FALSE]
        EXCEPT ![t[1] + 1][t[2] + 1].is_player_here = TRUE]

\* find_closest_open with the last comparisons in the order North, East,
\* South, West
RECURSIVE find_closest_openClockwise(_, _, _)
find_closest_openClockwise(map, previous_move, how_deep) ==
    IF how_deep > 20 THEN [direction |-> "North", steps |-> 999]
    ELSE
        LET p == FindPlayer(map, <<0, 0>>)
            player_x == p[1]
            player_y == p[2]
            here == Cell(map, player_x, player_y)
            copy_of_previous_move == Append(previous_move, p)
            less(d) ==
                IF /\ BoundaryOn(here, d) \in {"Open", "Checked"}
                   /\ NotAtEdge(map, player_x, player_y, d)
                   /\ \A k \in 1..Len(copy_of_previous_move) :
                        copy_of_previous_move[k] # StepTo(player_x, player_y, d)
                THEN find_closest_openClockwise(
                        MovePlayerFlag(map, player_x, player_y,
                                       StepTo(player_x, player_y, d)),
                        copy_of_previous_move, how_deep + 1).steps
                ELSE 999
            n == less("North")
            w == less("West")
            s == less("South")
            e == less("East")
        IN  IF here.north = "Open" THEN [direction |-> "North", steps |-> 1]
            ELSE IF here.east = "Open" THEN [direction |-> "East", steps |-> 1]
            ELSE IF here.south = "Open" THEN [direction |-> "South", steps |-> 1]
            ELSE IF here.west = "Open" THEN [direction |-> "West", steps |-> 1]
            ELSE IF n <= s /\ n <= e /\ n <= w /\ n # 0
                 THEN [direction |-> "North", steps |-> n + 1]
            ELSE IF e <= n /\ e <= s /\ e <= w /\ e # 0
                 THEN [direction |-> "East", steps |-> e + 1]
            ELSE IF s <= n /\ s <= e /\ s <= w /\ s # 0
                 THEN [direction |-> "South", steps |-> s + 1]
            ELSE IF w <= n /\ w <= s /\ w <= e /\ w # 0
                 THEN [direction |-> "West", steps |-> w + 1]
            ELSE [direction |-> "North", steps |-> 0]

\* find_closest_open with the first tests in the order North, West, South,
\* East
RECURSIVE find_closest_openWestFirst(_, _, _)
find_closest_openWestFirst(map, previous_move, how_deep) ==
    IF how_deep > 20 THEN [direction |-> "North", steps |-> 999]
    ELSE
        LET p == FindPlayer(map, <<0, 0>>)
            player_x == p[1]
            player_y == p[2]
            here == Cell(map, player_x, player_y)
            copy_of_previous_move == Append(previous_move, p)
            less(d) ==
                IF /\ BoundaryOn(here, d) \in {"Open", "Checked"}
                   /\ NotAtEdge(map, player_x, player_y, d)
                   /\ \A k \in 1..Len(copy_of_previous_move) :
                        copy_of_previous_move[k] # StepTo(player_x, player_y, d)
                THEN find_closest_openWestFirst(
                        MovePlayerFlag(map, player_x, player_y,
                                       StepTo(player_x, player_y, d)),
                        copy_of_previous_move, how_deep + 1).steps
                ELSE 999
            n == less("North")
            w == less("West")
            s == less("South")
            e == less("East")
        IN  IF here.north = "Open" THEN [direction |-> "North", steps |-> 1]
            ELSE IF here.west = "Open" THEN [direction |-> "West", steps |-> 1]
            ELSE IF here.south = "Open" THEN [direction |-> "South", steps |-> 1]
            ELSE IF here.east = "Open" THEN [direction |-> "East", steps |-> 1]
            ELSE IF n <= s /\ n <= e /\ n <= w /\ n # 0
                 THEN [direction |-> "North", steps |-> n + 1]
            ELSE IF w <= n /\ w <= s /\ w <= e /\ w # 0
                 THEN [direction |-> "West", steps |-> w + 1]
            ELSE IF s <= n /\ s <= e /\ s <= w /\ s # 0
                 THEN [direction |-> "South", steps |-> s + 1]
            ELSE IF e <= n /\ e <= s /\ e <= w /\ e # 0
                 THEN [direction |-> "East", steps |-> e + 1]
            ELSE [direction |-> "North", steps |-> 0]

\* find_closest_open handing the least cost up as it is
RECURSIVE find_closest_openSameCost(_, _, _)
find_closest_openSameCost(map, previous_move, how_deep) ==
    IF how_deep > 20 THEN [direction |-> "North", steps |-> 999]
    ELSE
        LET p == FindPlayer(map, <<0, 0>>)
            player_x == p[1]
            player_y == p[2]
            here == Cell(map, player_x, player_y)
            copy_of_previous_move == Append(previous_move, p)
            less(d) ==
                IF /\ BoundaryOn(here, d) \in {"Open", "Checked"}
                   /\ NotAtEdge(map, player_x, player_y, d)
                   /\ \A k \in 1..Len(copy_of_previous_move) :
                        copy_of_previous_move[k] # StepTo(player_x, player_y, d)
                THEN find_closest_openSameCost(
                        MovePlayerFlag(map, player_x, player_y,
                                       StepTo(player_x, player_y, d)),
                        copy_of_previous_move, how_deep + 1).steps
                ELSE 999
            n == less("North")
            w == less("West")
            s == less("South")
            e == less("East")
        IN  IF here.north = "Open" THEN [direction |-> "North", steps |-> 1]
            ELSE IF here.east = "Open" THEN [direction |-> "East", steps |-> 1]
            ELSE IF here.south = "Open" THEN [direction |-> "South", steps |-> 1]
            ELSE IF here.west = "Open" THEN [direction |-> "West", steps |-> 1]
            ELSE IF n <= s /\ n <= e /\ n <= w /\ n # 0
                 THEN [direction |-> "North", steps |-> n]
            ELSE IF w <= n /\ w <= s /\ w <= e /\ w # 0
                 THEN [direction |-> "West", steps |-> w]
            ELSE IF s <= n /\ s <= e /\ s <= w /\ s # 0
                 THEN [direction |-> "South", steps |-> s]
            ELSE IF e <= n /\ e <= s /\ e <= w /\ e # 0
                 THEN [direction |-> "East", steps |-> e]
            ELSE [direction |-> "North", steps |-> 0]

RECURSIVE find_closest_open(_, _, _)
find_closest_open(map, previous_move, how_deep) ==
    IF how_deep > 20 THEN [direction |-> "North", steps |-> 999]
    ELSE
        LET p == FindPlayer(map, <<0, 0>>)
            player_x == p[1]
            player_y == p[2]
            here == Cell(map, player_x, player_y)
            copy_of_previous_move == Append(previous_move, p)
            less(d) ==
                IF /\ BoundaryOn(here, d) \in {"Open", "Checked"}
                   /\ NotAtEdge(map, player_x, player_y, d)
                   /\ \A k \in 1..Len(copy_of_previous_move) :
                        copy_of_previous_move[k] # StepTo(player_x, player_y, d)
                THEN find_closest_open(
                        MovePlayerFlag(map, player_x, player_y,
                                       StepTo(player_x, player_y, d)),
                        copy_of_previous_move, how_deep + 1).steps
                ELSE 999
            n == less("North")
            w == less("West")
            s == less("South")
            e == less("East")
        IN  IF here.north = "Open" THEN [direction |-> "North", steps |-> 1]
            ELSE IF here.east = "Open" THEN [direction |-> "East", steps |-> 1]
            ELSE IF here.south = "Open" THEN [direction |-> "South", steps |-> 1]
            ELSE IF here.west = "Open" THEN [direction |-> "West", steps |-> 1]
            ELSE IF n <= s /\ n <= e /\ n <= w /\ n # 0
                 THEN [direction |-> "North", steps |-> n + 1]
            ELSE IF w <= n /\ w <= s /\ w <= e /\ w # 0
                 THEN [direction |-> "West", steps |-> w + 1]
            ELSE IF s <= n /\ s <= e /\ s <= w /\ s # 0
                 THEN [direction |-> "South", steps |-> s + 1]
            ELSE IF e <= n /\ e <= s /\ e <= w /\ e # 0
                 THEN [direction |-> "East", steps |-> e + 1]
            ELSE [direction |-> "North", steps |-> 0]

\* the calls of find_closest_open with the depth limit one level further
RECURSIVE CallsDeeper(_, _, _)
CallsDeeper(map, previous_move, how_deep) ==
    LET p == FindPlayer(map, <<0, 0>>)
        here == Cell(map, p[1], p[2])
        copy_of_previous_move == Append(previous_move, p)
    IN  {[at |-> p, previous_move |-> previous_move, how_deep |-> how_deep]}
            \cup
        IF how_deep > 21 \/ \E d \in MapDirections : BoundaryOn(here, d) = "Open"
        THEN {}
        ELSE UNION {
            IF /\ BoundaryOn(here, d) \in {"Open", "Checked"}
               /\ NotAtEdge(map, p[1], p[2], d)
               /\ \A k \in 1..Len(copy_of_previous_move) :
                    copy_of_previous_move[k] # StepTo(p[1], p[2], d)
            THEN CallsDeeper(MovePlayerFlag(map, p[1], p[2], StepTo(p[1], p[2], d)),
                             copy_of_previous_move, how_deep + 1)
            ELSE {} : d \in MapDirections}

\* the calls of find_closest_open that one call makes, itself included: the
\* cell holding the player flag, the path handed down and the depth of each
RECURSIVE Calls(_, _, _)
Calls(map, previous_move, how_deep) ==
    LET p == FindPlayer(map, <<0, 0>>)
        here == Cell(map, p[1], p[2])
        copy_of_previous_move == Append(previous_move, p)
    IN  {[at |-> p, previous_move |-> previous_move, how_deep |-> how_deep]}
            \cup
        IF how_deep > 20 \/ \E d \in MapDirections : BoundaryOn(here, d) = "Open"
        THEN {}
        ELSE UNION {
            IF /\ BoundaryOn(here, d) \in {"Open", "Checked"}
               /\ NotAtEdge(map, p[1], p[2], d)
               /\ \A k \in 1..Len(copy_of_previous_move) :
                    copy_of_previous_move[k] # StepTo(p[1], p[2], d)
            THEN Calls(MovePlayerFlag(map, p[1], p[2], StepTo(p[1], p[2], d)),
                       copy_of_previous_move, how_deep + 1)
            ELSE {} : d \in MapDirections}

\* the conversion of the North branch whatever the tracker holds
RelativeDirectionFromNorth(north_at, direction) ==
    CASE direction = "North" -> "Front" [] direction = "East" -> "Right"
      [] direction = "South" -> "Back" [] direction = "West" -> "Left"

\* the relative direction search_for_exit_smart sends for a map direction
RelativeDirection(north_at, direction) ==
    CASE north_at = "North" ->
            (CASE direction = "North" -> "Front" [] direction = "East" -> "Right"
               [] direction = "South" -> "Back" [] direction = "West" -> "Left")
      [] north_at = "East" ->
            (CASE direction = "North" -> "Left" [] direction = "East" -> "Front"
               [] direction = "South" -> "Right" [] direction = "West" -> "Back")
      [] north_at = "South" ->
            (CASE direction = "North" -> "Back" [] direction = "East" -> "Left"
               [] direction = "South" -> "Front" [] direction = "West" -> "Right")
      [] north_at = "West" ->
            (CASE direction = "North" -> "Right" [] direction = "East" -> "Back"
               [] direction = "South" -> "Left" [] direction = "West" -> "Front")

\* calculate_next_north turning the same way for Left as for Right
calculate_next_northOneWay(north_at, current_direction) ==
    CASE current_direction \in {"Right", "Left"} ->
            (CASE north_at = "North" -> "East" [] north_at = "East" -> "South"
               [] north_at = "South" -> "West" [] north_at = "West" -> "North")
      [] current_direction = "Back" ->
            (CASE north_at = "North" -> "South" [] north_at = "East" -> "West"
               [] north_at = "South" -> "North" [] north_at = "West" -> "East")
      [] OTHER -> north_at
calculate_next_north(north_at, current_direction) ==
    CASE current_direction = "Right" ->
            (CASE north_at = "North" -> "East" [] north_at = "East" -> "South"
               [] north_at = "South" -> "West" [] north_at = "West" -> "North")
      [] current_direction = "Left" ->
            (CASE north_at = "North" -> "West" [] north_at = "East" -> "North"
               [] north_at = "South" -> "East" [] north_at = "West" -> "South")
      [] current_direction = "Back" ->
            (CASE north_at = "North" -> "South" [] north_at = "East" -> "West"
               [] north_at = "South" -> "North" [] north_at = "West" -> "East")
      [] OTHER -> north_at

\* where rotate_map writes the cell (i, j) of a map of the given size
RotateTarget(rows, cols, i, j, direction) ==
    CASE direction = "North" -> <<i, j>>
      [] direction = "East" -> <<j, rows - i - 1>>
      [] direction = "South" -> <<rows - i - 1, cols - j - 1>>
      [] direction = "West" -> <<cols - j - 1, i>>

\* the boundaries shifted the other way round for East and West
RotateCellMirrored(cell, direction) ==
    CASE direction = "North" -> cell
      [] direction = "East" ->
            [cell EXCEPT !.north = cell.east, !.east = cell.south,
                         !.south = cell.west, !.west = cell.north]
      [] direction = "South" ->
            [cell EXCEPT !.north = cell.south, !.south = cell.north,
                         !.east = cell.west, !.west = cell.east]
      [] direction = "West" ->
            [cell EXCEPT !.north = cell.west, !.west = cell.south,
                         !.south = cell.east, !.east = cell.north]

\* the boundaries of a cell after rotate_map has shifted them
RotateCell(cell, direction) ==
    CASE direction = "North" -> cell
      [] direction = "East" ->
            [cell EXCEPT !.north = cell.west, !.west = cell.south,
                         !.south = cell.east, !.east = cell.north]
      [] direction = "South" ->
            [cell EXCEPT !.north = cell.south, !.south = cell.north,
                         !.east = cell.west, !.west = cell.east]
      [] direction = "West" ->
            [cell EXCEPT !.north = cell.east, !.east = cell.south,
                         !.south = cell.west, !.west = cell.north]

\* rotate_map; an index out of bounds is the result with ok FALSE
rotate_map(map, direction) ==
    LET rows == Rows(map)
        cols == Cols(map)
        all == (0..(rows - 1)) \X (0..(cols - 1))
        target(p) == RotateTarget(rows, cols, p[1], p[2], direction)
    IN  IF \E p \in all : target(p) \notin all
        THEN [ok |-> FALSE, map |-> <<>>]
        ELSE [ok |-> TRUE,
              map |-> [a \in 1..rows |-> [b \in 1..cols |->
                  LET from == {p \in all : target(p) = <<a - 1, b - 1>>}
                  IN  IF from = {} THEN UndefinedCell
                      ELSE RotateCell(Cell(map, LastOf(from)[1], LastOf(from)[2]),
                                      direction)]]]

\* the first loop of update_map without the reset of the flag it found
MarkMoveKeepFlag(map, i, j, direction) ==
    LET t == StepTo(i, j, direction)
        there == [map EXCEPT ![t[1] + 1][t[2] + 1].is_player_here = TRUE]
    IN  CASE direction = "North" ->
                [there EXCEPT ![t[1] + 1][t[2] + 1].south = "Checked",
                              ![i + 1][j + 1].north = "Checked"]
          [] direction = "East" ->
                [there EXCEPT ![t[1] + 1][t[2] + 1].west = "Checked",
                              ![i + 1][j + 1].east = "Checked"]
          [] direction = "South" ->
                [there EXCEPT ![t[1] + 1][t[2] + 1].north = "Checked",
                              ![i + 1][j + 1].south = "Checked"]
          [] direction = "West" ->
                [there EXCEPT ![t[1] + 1][t[2] + 1].east = "Checked",
                              ![i + 1][j + 1].west = "Checked"]

\* the first loop of update_map: the player flag moves one cell and the
\* boundary crossed becomes Checked on both sides
MarkMove(map, i, j, direction) ==
    LET t == StepTo(i, j, direction)
        left == [map EXCEPT ![i + 1][j + 1].is_player_here = FALSE]
        there == [left EXCEPT ![t[1] + 1][t[2] + 1].is_player_here = TRUE]
    IN  CASE direction = "North" ->
                [there EXCEPT ![t[1] + 1][t[2] + 1].south = "Checked",
                              ![i + 1][j + 1].north = "Checked"]
          [] direction = "East" ->
                [there EXCEPT ![t[1] + 1][t[2] + 1].west = "Checked",
                              ![i + 1][j + 1].east = "Checked"]
          [] direction = "South" ->
                [there EXCEPT ![t[1] + 1][t[2] + 1].north = "Checked",
                              ![i + 1][j + 1].south = "Checked"]
          [] direction = "West" ->
                [there EXCEPT ![t[1] + 1][t[2] + 1].east = "Checked",
                              ![i + 1][j + 1].west = "Checked"]

UndefinedRow(n) == [k \in 1..n |-> UndefinedCell]

\* Grow adding every new row and column at the end
GrowAtEnd(map, player_x, player_y, direction) ==
    CASE direction = "North" /\ player_x = 0 ->
            Append(map, UndefinedRow(Cols(map)))
      [] direction = "East" /\ player_y = Cols(map) - 1 ->
            [a \in 1..Rows(map) |-> Append(map[a], UndefinedCell)]
      [] direction = "South" /\ player_x = Rows(map) - 1 ->
            Append(map, UndefinedRow(Cols(map)))
      [] direction = "West" /\ player_y = 0 ->
            [a \in 1..Rows(map) |-> Append(map[a], UndefinedCell)]
      [] OTHER -> map

\* the second part of update_map: a row or a column is added when the player
\* stands on the edge the move went to
Grow(map, player_x, player_y, direction) ==
    CASE direction = "North" /\ player_x = 0 ->
            <<UndefinedRow(Cols(map))>> \o map
      [] direction = "East" /\ player_y = Cols(map) - 1 ->
            [a \in 1..Rows(map) |-> Append(map[a], UndefinedCell)]
      [] direction = "South" /\ player_x = Rows(map) - 1 ->
            Append(map, UndefinedRow(Cols(map)))
      [] direction = "West" /\ player_y = 0 ->
            [a \in 1..Rows(map) |-> <<UndefinedCell>> \o map[a]]
      [] OTHER -> map

\* the patch value written whatever the field holds
MergeFieldOverwrite(old, new) == new

MergeField(old, new) == IF old = "Undefined" THEN new ELSE old

\* the last loop of update_map for a patch that fits
Merge(map, new_map, player_x, player_y) ==
    [a \in 1..Rows(map) |-> [b \in 1..Len(map[a]) |->
        LET i == (a - 1) - player_x + 1
            j == (b - 1) - player_y + 1
            old == map[a][b]
        IN  IF i >= 0 /\ i < Len(new_map) /\ j >= 0 /\ j < Len(At(new_map, i))
            THEN [old EXCEPT !.north = MergeField(old.north, Cell(new_map, i, j).north),
                             !.east = MergeField(old.east, Cell(new_map, i, j).east),
                             !.south = MergeField(old.south, Cell(new_map, i, j).south),
                             !.west = MergeField(old.west, Cell(new_map, i, j).west)]
            ELSE old]]

\* update_map; an index out of bounds or a subtraction below zero is the
\* result with ok FALSE
update_map(map, new_map, direction) ==
    LET found == PlayerCells(map, Rows(map) - 1, Cols(map) - 1)
        from == FirstOf(found)
        to == StepTo(from[1], from[2], direction)
        moved == MarkMove(map, from[1], from[2], direction)
        map1 == IF found = {} THEN map ELSE moved
        p1 == IF found = {} THEN <<0, 0>> ELSE to
        map2 == Grow(map1, p1[1], p1[2], direction)
        p2 == FindPlayer(map2, p1)
        fits == \A i \in 0..(Len(new_map) - 1) : \A j \in 0..(Len(At(new_map, i)) - 1) :
                    /\ p2[1] + i >= 1 /\ p2[2] + j >= 1
                    /\ InMap(map2, p2[1] + i - 1, p2[2] + j - 1)
    IN  IF found # {} /\ ~InMap(map, to[1], to[2])
        THEN [ok |-> FALSE, map |-> <<>>]
        ELSE IF ~fits THEN [ok |-> FALSE, map |-> <<>>]
        ELSE [ok |-> TRUE, map |-> Merge(map2, new_map, p2[1], p2[2])]

-----------------------------------------------------------------------------
(* The radar frame from the server to the client.                           *)

RadarLabs ==
    FixtureLabs \cup GeneratedLabs(FixtureSide, Coords(FixtureSide, FixtureSide))
                \cup ArenaLabs

\* bytes whose four 2-bit fields hold the four boundary codes in three orders
PassageBytes == {27, 228, 114}

\* bytes whose nibbles hold the undefined cell (15) and every item and entity
CellBytes == {244, 105, 179}

PassageGroups == [1..3 -> PassageBytes]

CellGroups == {<<a, b, c, b, a>> : a \in CellBytes, b \in CellBytes, c \in CellBytes}

\* 11-byte payloads as they can arrive from the wire: 3 bytes of horizontal
\* passages, 3 of vertical passages, 5 of cells
Payloads ==
    {h \o v \o c : h \in PassageGroups, v \in {<<228, 27, 114>>, <<114, 114, 27>>},
                   c \in CellGroups}

RadarInit ==
    \/ /\ rPc = "start"
       /\ rLab \in RadarLabs
       /\ rPos \in Coords(rLab.width, rLab.height)
       /\ rDir \in MapDirections
       /\ rServer = <<>>
       /\ rClient = <<>>
    \/ /\ rPc = "payload"
       /\ rLab = <<>> /\ rPos = <<>> /\ rDir = None
       /\ \E data \in Payloads : rServer = [data |-> data, encoded |-> encode(data)]
       /\ rClient = <<>>

\* the server builds the RadarView message
EncodeRadarView ==
    /\ rPc = "start"
    /\ rServer' = encode_radar_view(rPos, rDir, rLab)
    /\ rPc' = "encoded"
    /\ UNCHANGED <<rLab, rPos, rDir, rClient>>
    /\ UNCHANGED <<codecVars, mazeVars, sessVars, auxVars>>

\* the client parses it, both ways
ParseRadar ==
    /\ rPc = "encoded"
    /\ \E r \in {parse_radar_response(RadarViewMsg(rServer.encoded))} :
         rClient' = [ok |-> r.ok, cells |-> r.cells,
                     horizontal_passages |-> r.horizontal_passages,
                     vertical_passages |-> r.vertical_passages,
                     map |-> parse_radar_response_smart(
                                 RadarViewMsg(rServer.encoded)).map]
    /\ rPc' = "parsed"
    /\ UNCHANGED <<rLab, rPos, rDir, rServer>>
    /\ UNCHANGED <<codecVars, mazeVars, sessVars, auxVars>>

\* the client parses a frame that came from the wire
ParsePayload ==
    /\ rPc = "payload"
    /\ \E r \in {parse_radar_response(RadarViewMsg(rServer.encoded))} :
         rClient' = [ok |-> r.ok, cells |-> r.cells,
                     horizontal_passages |-> r.horizontal_passages,
                     vertical_passages |-> r.vertical_passages,
                     map |-> parse_radar_response_smart(
                                 RadarViewMsg(rServer.encoded)).map]
    /\ rPc' = "payload_parsed"
    /\ UNCHANGED <<rLab, rPos, rDir, rServer>>
    /\ UNCHANGED <<codecVars, mazeVars, sessVars, auxVars>>

RadarNext == EncodeRadarView \/ ParseRadar \/ ParsePayload

InitRadar == CodecIdle /\ MazeIdle /\ RadarInit /\ SessIdle /\ AuxIdle

SpecRadar == InitRadar /\ [][RadarNext]_vars

-----------------------------------------------------------------------------
(* The session: the server's handlers (main.rs handle_client,               *)
(* handle_register_team, handle_subscribe_player, handle_action) and the    *)
(* player threads of the client (player.rs start_player_thread,             *)
(* search_for_exit, search_for_exit_smart). The player threads run one      *)
(* after the other, each over its own connection.                           *)

MaxTokens == 1      \* team registrations
MaxThreads == 3     \* player threads started
MaxMoves == 9       \* MoveTo messages sent by a player thread

TeamNames == {"t1"}
PlayerNames == {"p1"}
Modes == {"fallback", "smart"}

\* generate_token: the n-th token drawn; two draws are taken to differ
Token(n) == <<"token", n>>
BadToken == <<"none">>

\* format!("{}/{}", team_name, player_name)
PlayerKey(team_name, player_name) == <<team_name, player_name>>
UnknownKey == <<"unknown">>

SubscribePlayerMsg(name, registration_token) ==
    [type |-> "SubscribePlayer", name |-> name,
     registration_token |-> registration_token, direction |-> None]

MoveToMsg(direction) ==
    [type |-> "MoveTo", name |-> None, registration_token |-> <<>>,
     direction |-> direction]

\* state.teams.insert of handle_register_team
handle_register_team(teams, name, registration_token) ==
    {t \in teams : t.name # name}
        \cup {[name |-> name, registration_token |-> registration_token,
               expected_players |-> 3, players |-> <<>>]}

\* the teams found by registration token
TeamsWithToken(teams, token) == {t \in teams : t.registration_token = token}

StartPosition(player_id) ==
    CASE player_id % 3 = 0 -> <<3, 4>>
      [] player_id % 3 = 1 -> <<4, 2>>
      [] OTHER -> <<4, 4>>

StartDirection(player_id) ==
    CASE player_id % 3 = 0 -> "West"
      [] OTHER -> "East"

\* the wall of the current cell that handle_action checks for a move from
\* current to new, for new different from current
WallChecked(labyrinth, current, new) ==
    LET cell == labyrinth.cells[current]
    IN  IF new[2] < current[2] THEN cell.north_wall
        ELSE IF new[2] > current[2] THEN cell.south_wall
        ELSE IF new[1] > current[1] THEN cell.east_wall
        ELSE cell.west_wall

\* the MoveTo arm of handle_action for a player of the table: the player
\* afterwards, the messages sent in their order, and the locals
handle_action(player, direction, labyrinth) ==
    LET current_position == player.position
        move_result == process_move(current_position[1], current_position[2],
                                    player.direction, direction)
        moved == <<move_result[1], move_result[2]>>
        hit_wall == /\ moved # current_position
                    /\ WallChecked(labyrinth, current_position, moved)
        can_move == ~hit_wall
        new_position == IF can_move THEN moved ELSE current_position
        moves == player.moves + 1
        found_exit == new_position = labyrinth.exit_position
        give_hint == moves > 0 /\ moves % 8 = 0
        encoded_view == encode_radar_view(new_position, move_result[3], labyrinth).encoded
    IN  [player |-> [player EXCEPT !.position = new_position,
                                   !.direction = move_result[3],
                                   !.moves = moves],
         responses |->
            (IF hit_wall THEN <<PlainMsg("CannotPassThroughWall")>> ELSE <<>>)
            \o (IF give_hint THEN <<PlainMsg("Hint")>> ELSE <<>>)
            \o (IF found_exit THEN <<PlainMsg("FoundExit")>> ELSE <<>>)
            \o <<RadarViewMsg(encoded_view)>>,
         locals |-> [current_position |-> current_position,
                     current_direction |-> player.direction,
                     move_direction |-> direction,
                     position |-> new_position,
                     hit_wall |-> hit_wall,
                     found_exit |-> found_exit,
                     give_hint |-> give_hint]]

\* a loop that would return on every radar view
ExitConditionOnRadar(action_response) == Contains(action_response, "RadarView")

\* the exit condition of both player loops
ExitCondition(action_response) == Contains(action_response, "FoundExit")

\* the ways a player thread ends: Ok, an Err result, a panic
Ended == {"exited", "failed", "panicked"}

SessionInit ==
    /\ sLab \in ArenaLabs
    /\ sTeams = {} /\ sTokens = 0 /\ sPlayers = {} /\ sNextId = 0
    /\ sKey = NoneOpt /\ sPc = "idle" /\ sLast = <<>> /\ c2s = <<>> /\ s2c = <<>>
    /\ pPc = "idle" /\ pMode = None /\ pView = <<>> /\ pMap = <<>>
    /\ pNorthAt = None /\ pNext = None /\ pResp = NoneOpt /\ pSent = 0 /\ pThreads = 0

serverVars == <<sLab, sTeams, sTokens, sPlayers, sNextId, sKey, sPc, sLast>>
playerVars == <<pPc, pMode, pView, pMap, pNorthAt, pNext, pResp, pSent, pThreads>>

\* handle_register_team on a connection of its own; the RegisterTeamResult
\* goes back over that connection
RegisterTeam ==
    /\ sLab # <<>>
    /\ sTokens < MaxTokens
    /\ \E name \in TeamNames :
          sTeams' = handle_register_team(sTeams, name, Token(sTokens + 1))
    /\ sTokens' = sTokens + 1
    /\ UNCHANGED <<sLab, sPlayers, sNextId, sKey, sPc, sLast, c2s, s2c, playerVars>>
    /\ UNCHANGED <<codecVars, mazeVars, radarVars, auxVars>>

\* start_player_thread up to the SubscribePlayer it sends; the server accepts
\* the connection and handle_client starts with player_key None
StartPlayer ==
    /\ sLab # <<>>
    /\ pPc \in {"idle"} \cup Ended
    /\ sPc = "idle"
    /\ pThreads < MaxThreads
    /\ \E player_name \in PlayerNames, use_smart_mode \in BOOLEAN,
          registration_token \in {Token(n) : n \in 1..sTokens} \cup {BadToken} :
          /\ c2s' = <<SubscribePlayerMsg(player_name, registration_token)>>
          /\ pMode' = IF use_smart_mode THEN "smart" ELSE "fallback"
    /\ s2c' = <<>>
    /\ sPc' = "serving" /\ sKey' = NoneOpt
    /\ pPc' = "subscribing"
    /\ pView' = <<>> /\ pMap' = <<>> /\ pNorthAt' = None /\ pNext' = None
    /\ pResp' = NoneOpt /\ pSent' = 0 /\ sLast' = <<>>
    /\ pThreads' = pThreads + 1
    /\ UNCHANGED <<sLab, sTeams, sTokens, sPlayers, sNextId>>
    /\ UNCHANGED <<codecVars, mazeVars, radarVars, auxVars>>

\* the SubscribePlayer arm of handle_client with handle_subscribe_player
HandleSubscribe ==
    /\ sPc = "serving" /\ c2s # <<>> /\ Head(c2s).type = "SubscribePlayer"
    /\ TeamsWithToken(sTeams, Head(c2s).registration_token) # {} =>
            StartPosition(sNextId) \in DOMAIN sLab.cells
    /\ LET message == Head(c2s)
           found == TeamsWithToken(sTeams, message.registration_token)
       IN  IF found # {}
           THEN LET team == CHOOSE t \in found : TRUE
                    player_id == sNextId
                    player_key == PlayerKey(team.name, message.name)
                    player == [key |-> player_key, id |-> player_id,
                               name |-> message.name, team_name |-> team.name,
                               position |-> StartPosition(player_id),
                               direction |-> StartDirection(player_id),
                               moves |-> 0]
                IN  /\ sKey' = Some(player_key)
                    /\ sTeams' = (sTeams \ {team})
                          \cup {[team EXCEPT !.players = Append(@, message.name)]}
                    /\ sNextId' = sNextId + 1
                    /\ sPlayers' = {p \in sPlayers : p.key # player_key} \cup {player}
                    /\ s2c' = s2c \o
                          <<PlainMsg("SubscribePlayerResultOk"),
                            RadarViewMsg(encode_radar_view(player.position,
                                            player.direction, sLab).encoded)>>
           ELSE /\ s2c' = Append(s2c, PlainMsg("SubscribePlayerResultError"))
                /\ UNCHANGED <<sKey, sTeams, sNextId, sPlayers>>
    /\ c2s' = Tail(c2s)
    /\ UNCHANGED <<sLab, sTokens, sPc, sLast, playerVars>>
    /\ UNCHANGED <<codecVars, mazeVars, radarVars, auxVars>>

\* the Action arm of handle_client with handle_action. A connection without
\* player_key looks for a player whose x position contains the port of the
\* peer as text, which no port of four or five digits does: "unknown"
HandleAction ==
    /\ sPc = "serving" /\ c2s # <<>> /\ Head(c2s).type = "MoveTo"
    /\ LET player_key == IF sKey = NoneOpt THEN UnknownKey ELSE sKey[1]
           found == {p \in sPlayers : p.key = player_key}
       IN  IF found = {}
           THEN UNCHANGED <<sPlayers, s2c, sLast>>
           ELSE \E r \in {handle_action(CHOOSE p \in found : TRUE,
                                        Head(c2s).direction, sLab)} :
                    /\ sPlayers' = (sPlayers \ found) \cup {r.player}
                    /\ s2c' = s2c \o r.responses
                    /\ sLast' = r.locals
    /\ c2s' = Tail(c2s)
    /\ UNCHANGED <<sLab, sTeams, sTokens, sNextId, sKey, sPc, playerVars>>
    /\ UNCHANGED <<codecVars, mazeVars, radarVars, auxVars>>

\* the end of handle_client without the removal of the player
CloseConnectionKeepsPlayer ==
    /\ sPc = "serving" /\ pPc \in Ended /\ c2s = <<>>
    /\ sKey' = NoneOpt
    /\ sPc' = "idle"
    /\ s2c' = <<>>
    /\ UNCHANGED <<sLab, sTeams, sTokens, sPlayers, sNextId, sLast, c2s, playerVars>>
    /\ UNCHANGED <<codecVars, mazeVars, radarVars, auxVars>>

\* the end of handle_client: the player thread has ended and dropped its
\* stream, receive_message fails, the player of the connection is removed
CloseConnection ==
    /\ sPc = "serving" /\ pPc \in Ended /\ c2s = <<>>
    /\ sPlayers' = IF sKey = NoneOpt THEN sPlayers
                   ELSE {p \in sPlayers : p.key # sKey[1]}
    /\ sKey' = NoneOpt
    /\ sPc' = "idle"
    /\ s2c' = <<>>
    /\ UNCHANGED <<sLab, sTeams, sTokens, sNextId, sLast, c2s, playerVars>>
    /\ UNCHANGED <<codecVars, mazeVars, radarVars, auxVars>>

\* start_player_thread: the answer to SubscribePlayer
RecvSubscribeResult ==
    /\ pPc = "subscribing" /\ s2c # <<>>
    /\ LET response == Head(s2c)
       IN  /\ pResp' = Some(response)
           /\ pPc' = IF ~Contains(response, "Ok") THEN "failed" ELSE "radar"
    /\ s2c' = Tail(s2c)
    /\ UNCHANGED <<serverVars, c2s, pMode, pView, pMap, pNorthAt, pNext, pSent, pThreads>>
    /\ UNCHANGED <<codecVars, mazeVars, radarVars, auxVars>>

\* start_player_thread: the first radar view, and the player loop up to its
\* loop statement
RecvInitialRadar ==
    /\ pPc = "radar" /\ s2c # <<>>
    /\ LET response == Head(s2c)
       IN  /\ pResp' = Some(response)
           /\ IF pMode = "smart"
              THEN \E r \in {parse_radar_response_smart(response)} :
                      /\ pPc' = IF r.ok THEN "loop" ELSE "panicked"
                      /\ pMap' = r.map
                      /\ pNorthAt' = IF r.ok THEN "North" ELSE pNorthAt
                      /\ pView' = pView
              ELSE \E r \in {parse_radar_response(response)} :
                      /\ pPc' = IF r.ok THEN "loop" ELSE "panicked"
                      /\ pView' = [horizontal_passages |-> r.horizontal_passages,
                                   vertical_passages |-> r.vertical_passages]
                      /\ UNCHANGED <<pMap, pNorthAt>>
    /\ s2c' = Tail(s2c)
    /\ UNCHANGED <<serverVars, c2s, pMode, pNext, pSent, pThreads>>
    /\ UNCHANGED <<codecVars, mazeVars, radarVars, auxVars>>

\* one iteration of the player loop up to the MoveTo it sends
SendMove ==
    /\ pPc = "loop"
    /\ pSent < MaxMoves
    /\ IF pMode = "smart"
       THEN \E next_direction \in {find_closest_open(pMap, <<>>, 0)} :
              LET current_direction ==
                      RelativeDirection(pNorthAt, next_direction.direction)
              IN  /\ pNorthAt' = calculate_next_north(pNorthAt, current_direction)
                  /\ pNext' = next_direction.direction
                  /\ c2s' = Append(c2s, MoveToMsg(current_direction))
                  /\ pSent' = pSent + 1
                  /\ pPc' = "waiting"
       ELSE \E t \in {TurnUntilOpen("Right", pView.horizontal_passages,
                                    pView.vertical_passages, 0)} :
              /\ pPc' = CASE t.kind = "panic" -> "panicked"
                          [] t.kind = "spin" -> "spinning"
                          [] OTHER -> "waiting"
              /\ c2s' = IF t.kind = "move"
                        THEN Append(c2s, MoveToMsg(t.direction)) ELSE c2s
              /\ pSent' = IF t.kind = "move" THEN pSent + 1 ELSE pSent
              /\ UNCHANGED <<pNorthAt, pNext>>
    /\ UNCHANGED <<serverVars, s2c, pMode, pView, pMap, pResp, pThreads>>
    /\ UNCHANGED <<codecVars, mazeVars, radarVars, auxVars>>

\* the rest of the iteration from a message received: a message with Hint as
\* the first one has the loop receive the next one; a Challenge is left to
\* resolve_challenge; FoundExit returns Ok; anything else is parsed
ReceiveResponse ==
    /\ pPc \in {"waiting", "hinted"} /\ s2c # <<>>
    /\ LET action_response == Head(s2c)
       IN  /\ pResp' = Some(action_response)
           /\ IF pPc = "waiting" /\ Contains(action_response, "Hint")
              THEN pPc' = "hinted" /\ UNCHANGED <<pView, pMap>>
              ELSE IF Contains(action_response, "Challenge")
              THEN pPc' = "challenge" /\ UNCHANGED <<pView, pMap>>
              ELSE IF ExitCondition(action_response)
              THEN pPc' = "exited" /\ UNCHANGED <<pView, pMap>>
              ELSE IF pMode = "smart"
              THEN \E m \in {parse_radar_response_smart(action_response)} :
                     IF ~m.ok THEN pPc' = "panicked" /\ UNCHANGED <<pView, pMap>>
                     ELSE \E rotated \in {rotate_map(m.map, pNext)} :
                       IF ~rotated.ok
                       THEN pPc' = "panicked" /\ UNCHANGED <<pView, pMap>>
                       ELSE \E updated \in {update_map(pMap, rotated.map, pNext)} :
                              /\ pPc' = IF updated.ok THEN "loop" ELSE "panicked"
                              /\ pMap' = IF updated.ok THEN updated.map ELSE pMap
                              /\ pView' = pView
              ELSE \E r \in {parse_radar_response(action_response)} :
                     /\ pPc' = IF r.ok THEN "loop" ELSE "panicked"
                     /\ pView' = [horizontal_passages |-> r.horizontal_passages,
                                  vertical_passages |-> r.vertical_passages]
                     /\ pMap' = pMap
    /\ s2c' = Tail(s2c)
    /\ UNCHANGED <<serverVars, c2s, pMode, pNorthAt, pNext, pSent, pThreads>>
    /\ UNCHANGED <<codecVars, mazeVars, radarVars, auxVars>>

\* receive_message returns an error and the thread ends with it
StreamError ==
    /\ pPc \in {"subscribing", "radar", "waiting", "hinted"}
    /\ pPc' = "failed"
    /\ UNCHANGED <<serverVars, c2s, s2c, pMode, pView, pMap, pNorthAt, pNext,
                   pResp, pSent, pThreads>>
    /\ UNCHANGED <<codecVars, mazeVars, radarVars, auxVars>>

SessionNext ==
    \/ RegisterTeam
    \/ StartPlayer
    \/ HandleSubscribe
    \/ HandleAction
    \/ CloseConnection
    \/ RecvSubscribeResult
    \/ RecvInitialRadar
    \/ SendMove
    \/ ReceiveResponse
    \/ StreamError

InitSession == CodecIdle /\ MazeIdle /\ RadarIdle /\ SessionInit /\ AuxIdle

SpecSession == InitSession /\ [][SessionNext]_vars

-----------------------------------------------------------------------------
(* The facing of the server and the tracker of the client under any         *)
(* sequence of moves: the smart loop with the choice of its navigator left  *)
(* open.                                                                    *)

MaxTurns == 4       \* MoveTo messages sent in a row

\* the move decision of search_for_exit_smart for any relative direction:
\* calculate_next_north, then the MoveTo is sent
IssueMove ==
    /\ pMode = "smart" /\ pPc = "loop"
    /\ c2s = <<>>
    /\ pSent < MaxTurns
    /\ \E current_direction \in {"Front", "Right", "Back", "Left"} :
         /\ pNorthAt' = calculate_next_north(pNorthAt, current_direction)
         /\ c2s' = Append(c2s, MoveToMsg(current_direction))
    /\ pSent' = pSent + 1
    /\ UNCHANGED <<serverVars, s2c, pPc, pMode, pView, pMap, pNext, pResp, pThreads>>
    /\ UNCHANGED <<codecVars, mazeVars, radarVars, auxVars>>

TurnsNext ==
    \/ RegisterTeam
    \/ StartPlayer
    \/ HandleSubscribe
    \/ RecvSubscribeResult
    \/ RecvInitialRadar
    \/ IssueMove
    \/ HandleAction

SpecTurns == InitSession /\ [][TurnsNext]_vars

-----------------------------------------------------------------------------
(* The server started with mazes of other sizes than 5 x 5: the start       *)
(* cells of handle_subscribe_player and the limits of process_move are      *)
(* those of a 5 x 5 grid whatever the dimensions given on the command line. *)

MinArenaSide == 4      \* the least width and height the server is started with
MaxArenaWidth == 6     \* the largest width
MaxArenaHeight == 5    \* the largest height

\* the labyrinths main builds for these dimensions
SizedLabs ==
    {generate_labyrinth(w, h, <<0, 0>>, seed) :
        w \in MinArenaSide..MaxArenaWidth, h \in MinArenaSide..MaxArenaHeight,
        seed \in 0..MaxSeed}

\* the state of main once the labyrinth is generated
ArenaInit ==
    /\ sLab \in SizedLabs
    /\ sTeams = {} /\ sTokens = 0 /\ sPlayers = {} /\ sNextId = 0
    /\ sKey = NoneOpt /\ sPc = "idle" /\ sLast = <<>> /\ c2s = <<>> /\ s2c = <<>>
    /\ pPc = "idle" /\ pMode = None /\ pView = <<>> /\ pMap = <<>>
    /\ pNorthAt = None /\ pNext = None /\ pResp = NoneOpt /\ pSent = 0 /\ pThreads = 0

\* handle_subscribe_player for a start cell outside the labyrinth: the
\* player is stored and the Ok result sent, then encode_radar_view indexes
\* labyrinth.cells out of bounds and the thread panics with the state
\* locked, which poisons the mutex for every other thread
SubscribePanics ==
    /\ sPc = "serving" /\ c2s # <<>> /\ Head(c2s).type = "SubscribePlayer"
    /\ TeamsWithToken(sTeams, Head(c2s).registration_token) # {}
    /\ StartPosition(sNextId) \notin DOMAIN sLab.cells
    /\ LET message == Head(c2s)
           team == CHOOSE t \in TeamsWithToken(sTeams, message.registration_token) : TRUE
           player_key == PlayerKey(team.name, message.name)
           player == [key |-> player_key, id |-> sNextId,
                      name |-> message.name, team_name |-> team.name,
                      position |-> StartPosition(sNextId),
                      direction |-> StartDirection(sNextId),
                      moves |-> 0]
       IN  /\ sKey' = Some(player_key)
           /\ sTeams' = (sTeams \ {team})
                 \cup {[team EXCEPT !.players = Append(@, message.name)]}
           /\ sNextId' = sNextId + 1
           /\ sPlayers' = {p \in sPlayers : p.key # player_key} \cup {player}
           /\ s2c' = Append(s2c, PlainMsg("SubscribePlayerResultOk"))
    /\ sPc' = "poisoned"
    /\ c2s' = Tail(c2s)
    /\ UNCHANGED <<sLab, sTokens, sLast, playerVars>>
    /\ UNCHANGED <<codecVars, mazeVars, radarVars, auxVars>>

ArenaNext ==
    \/ RegisterTeam
    \/ StartPlayer
    \/ HandleSubscribe
    \/ SubscribePanics
    \/ RecvSubscribeResult
    \/ RecvInitialRadar
    \/ IssueMove
    \/ HandleAction
    \/ CloseConnection
    \/ StreamError

InitArena == CodecIdle /\ MazeIdle /\ RadarIdle /\ ArenaInit /\ AuxIdle

SpecArena == InitArena /\ [][ArenaNext]_vars

-----------------------------------------------------------------------------
(* The rotation of the patches of the radar: rotate_map applied again and   *)
(* again to the 3 x 3 maps make_map_with_passages builds.                   *)

MaxMarked == 2      \* passages of a patch that are walls, the others open
MaxRotations == 4   \* calls of rotate_map in a row

\* the 12 horizontal passages (0..11) and the 12 vertical ones (12..23) with
\* the marked ones Wall
MarkedPassages(marked, from) ==
    [k \in 1..12 |-> IF (from + k - 1) \in marked THEN "Wall" ELSE "Open"]

\* the choices of the marked passages
MarkedSets == {m \in SUBSET (0..23) : Cardinality(m) <= MaxMarked}

\* a patch as parse_radar_response_smart hands it to rotate_map
RotateInit ==
    /\ sLab = <<>> /\ sTeams = {} /\ sTokens = 0 /\ sPlayers = {} /\ sNextId = 0
    /\ sKey = NoneOpt /\ sPc = "idle" /\ sLast = <<>> /\ c2s = <<>> /\ s2c = <<>>
    /\ pPc = "rotate" /\ pMode = "smart" /\ pView = <<>>
    /\ \E marked \in MarkedSets :
         pMap = make_map_with_passages(MarkedPassages(marked, 0),
                                       MarkedPassages(marked, 12))
    /\ pNorthAt = None /\ pNext = None /\ pResp = NoneOpt
    /\ pSent = 0 /\ pThreads = 1

\* map_new = rotate_map(map_new, direction) for any direction
RotatePatch ==
    /\ pPc = "rotate"
    /\ pSent < MaxRotations
    /\ \E direction \in MapDirections :
         \E r \in {rotate_map(pMap, direction)} :
            /\ r.ok
            /\ pMap' = r.map
            /\ pNext' = direction
    /\ pSent' = pSent + 1
    /\ UNCHANGED <<serverVars, c2s, s2c, pPc, pMode, pView, pNorthAt, pResp, pThreads>>
    /\ UNCHANGED <<codecVars, mazeVars, radarVars, auxVars>>

InitRotate == CodecIdle /\ MazeIdle /\ RadarIdle /\ RotateInit /\ AuxIdle

SpecRotate == InitRotate /\ [][RotatePatch]_vars

-----------------------------------------------------------------------------
(* The connections of the server side by side: every connection thread runs *)
(* handle_client with a player_key of its own on the one ServerState, and   *)
(* every handler works on the state with the mutex held.                    *)

MaxClients == 2         \* connections accepted
MaxSubscriptions == 3   \* players stored, over all connections
MaxConnMoves == 1       \* MoveTo actions handled for one stored player

Clients == 1..MaxClients

\* the names the clients subscribe with
ConnNames == {"p1", "p2"}

\* the state of main once the labyrinth is generated, no connection accepted
ConnsInit ==
    /\ sLab \in ArenaLabs
    /\ sTeams = {} /\ sTokens = 0 /\ sPlayers = {} /\ sNextId = 0
    /\ sKey = NoneOpt /\ sPc = "idle" /\ sLast = <<>> /\ c2s = <<>> /\ s2c = <<>>
    /\ pPc = "idle" /\ pMode = None /\ pView = <<>> /\ pMap = <<>>
    /\ pNorthAt = None /\ pNext = None /\ pResp = NoneOpt /\ pSent = 0 /\ pThreads = 0
    /\ nPc = [c \in Clients |-> "none"]
    /\ nKey = [c \in Clients |-> NoneOpt]
    /\ nId = [c \in Clients |-> NoneOpt]

\* main accepts a connection and handle_client starts with player_key None
Accept(c) ==
    /\ nPc[c] = "none"
    /\ nPc' = [nPc EXCEPT ![c] = "open"]
    /\ UNCHANGED <<nKey, nId>>
    /\ UNCHANGED <<codecVars, mazeVars, radarVars, sessVars, logVars, lockVars, secretVars>>

\* the SubscribePlayer arm of handle_client on the connection c: player_key
\* becomes the key of the team found and the name sent, and
\* handle_subscribe_player stores the Player under that key
ConnSubscribe(c) ==
    /\ nPc[c] = "open"
    /\ sNextId < MaxSubscriptions
    /\ \E name \in ConnNames,
          registration_token \in {Token(n) : n \in 1..sTokens} \cup {BadToken} :
         LET found == TeamsWithToken(sTeams, registration_token)
         IN  IF found # {}
             THEN LET team == CHOOSE t \in found : TRUE
                      player_key == PlayerKey(team.name, name)
                      player == [key |-> player_key, id |-> sNextId,
                                 name |-> name, team_name |-> team.name,
                                 position |-> StartPosition(sNextId),
                                 direction |-> StartDirection(sNextId),
                                 moves |-> 0]
                  IN  /\ nKey' = [nKey EXCEPT ![c] = Some(player_key)]
                      /\ nId' = [nId EXCEPT ![c] = Some(sNextId)]
                      /\ sTeams' = (sTeams \ {team})
                            \cup {[team EXCEPT !.players = Append(@, name)]}
                      /\ sNextId' = sNextId + 1
                      /\ sPlayers' = {p \in sPlayers : p.key # player_key} \cup {player}
             ELSE UNCHANGED <<nKey, nId, sTeams, sNextId, sPlayers>>
    /\ UNCHANGED <<nPc, sLab, sTokens, sKey, sPc, sLast, c2s, s2c, playerVars>>
    /\ UNCHANGED <<codecVars, mazeVars, radarVars, logVars, lockVars, secretVars>>

\* the Action arm of handle_client on the connection c: handle_action for
\* the player stored under the player_key of the connection, and no answer
\* when the table has no such key
ConnMove(c) ==
    /\ nPc[c] = "open"
    /\ \E direction \in {"Front", "Right", "Back", "Left"} :
         LET player_key == IF nKey[c] = NoneOpt THEN UnknownKey ELSE nKey[c][1]
             found == {p \in sPlayers : p.key = player_key}
         IN  IF found = {}
             THEN UNCHANGED <<sPlayers, sLast>>
             ELSE /\ (CHOOSE p \in found : TRUE).moves < MaxConnMoves
                  /\ \E r \in {handle_action(CHOOSE p \in found : TRUE, direction, sLab)} :
                        /\ sPlayers' = (sPlayers \ found) \cup {r.player}
                        /\ sLast' = r.locals
    /\ UNCHANGED <<connVars, sLab, sTeams, sTokens, sNextId, sKey, sPc, c2s, s2c, playerVars>>
    /\ UNCHANGED <<codecVars, mazeVars, radarVars, logVars, lockVars, secretVars>>

\* the end of handle_client on the connection c: the player stored under
\* its player_key is removed
ConnClose(c) ==
    /\ nPc[c] = "open"
    /\ nPc' = [nPc EXCEPT ![c] = "closed"]
    /\ sPlayers' = IF nKey[c] = NoneOpt THEN sPlayers
                   ELSE {p \in sPlayers : p.key # nKey[c][1]}
    /\ UNCHANGED <<nKey, nId, sLab, sTeams, sTokens, sNextId, sKey, sPc, sLast,
                   c2s, s2c, playerVars>>
    /\ UNCHANGED <<codecVars, mazeVars, radarVars, logVars, lockVars, secretVars>>

ConnsNext ==
    \/ RegisterTeam
    \/ \E c \in Clients : Accept(c)
    \/ \E c \in Clients : ConnSubscribe(c)
    \/ \E c \in Clients : ConnMove(c)
    \/ \E c \in Clients : ConnClose(c)

InitConns ==
    CodecIdle /\ MazeIdle /\ RadarIdle /\ LogIdle /\ LockIdle /\ SecretIdle /\ ConnsInit

SpecConns == InitConns /\ [][ConnsNext]_vars

-----------------------------------------------------------------------------
(* A player thread against any peer: the loops of search_for_exit and       *)
(* search_for_exit_smart take whatever message arrives on the stream, so    *)
(* the frames are inputs here and the navigator chooses its directions from *)
(* the map they build.                                                      *)

MaxFrames == 4      \* messages the peer sends after the initial RadarView

\* the passages of a view: all open, all walls, two mixtures of both, walls
\* but for vertical passage 5, walls but for horizontal passage 7, and
\* nothing known
PeerPassages ==
    { <<85, 85, 85, 85, 85, 85>>, <<170, 170, 170, 170, 170, 170>>,
      <<102, 153, 102, 153, 102, 153>>, <<153, 102, 153, 102, 153, 102>>,
      <<170, 170, 170, 170, 154, 170>>, <<170, 169, 170, 170, 170, 170>>,
      <<0, 0, 0, 0, 0, 0>> }

PeerRadarViews == {RadarViewMsg(encode(q \o <<240, 0, 0, 0, 0>>)) : q \in PeerPassages}

PeerMessages == PeerRadarViews \cup {PlainMsg("CannotPassThroughWall")}

\* the thread has subscribed and waits for the first RadarView
ClientInit ==
    /\ sLab = <<>> /\ sTeams = {} /\ sTokens = 0 /\ sPlayers = {} /\ sNextId = 0
    /\ sKey = NoneOpt /\ sPc = "idle" /\ sLast = <<>> /\ c2s = <<>>
    /\ \E first \in PeerRadarViews : s2c = <<first>>
    /\ pPc = "radar" /\ pMode \in Modes /\ pView = <<>> /\ pMap = <<>>
    /\ pNorthAt = None /\ pNext = None /\ pResp = NoneOpt /\ pSent = 0 /\ pThreads = 1

\* the peer reads the MoveTo and answers with one message
PeerSends ==
    /\ pPc = "waiting" /\ c2s # <<>> /\ s2c = <<>>
    /\ pSent <= MaxFrames
    /\ \E message \in PeerMessages : s2c' = <<message>>
    /\ c2s' = Tail(c2s)
    /\ UNCHANGED <<serverVars, playerVars>>
    /\ UNCHANGED <<codecVars, mazeVars, radarVars, auxVars>>

ClientNext == RecvInitialRadar \/ SendMove \/ ReceiveResponse \/ PeerSends

InitClient == CodecIdle /\ MazeIdle /\ RadarIdle /\ ClientInit /\ AuxIdle

SpecClient == InitClient /\ [][ClientNext]_vars

-----------------------------------------------------------------------------
(* The move selection of the smart loop on maps with visited corridors.     *)

SearchRows == 2     \* rows of the explored block of a map
SearchCols == 3     \* columns of the explored block of a map

\* the explored cells of a map, one ring of cells away from its edges
BlockCells == (1..SearchRows) \X (1..SearchCols)

\* the boundaries between two explored cells, as the pair of the upper or
\* left cell and the lower or right one
BlockEdges ==
    {<<<<i, j>>, <<i, j + 1>>>> : i \in 1..SearchRows, j \in 1..(SearchCols - 1)}
        \cup {<<<<i, j>>, <<i + 1, j>>>> : i \in 1..(SearchRows - 1), j \in 1..SearchCols}

\* what the map holds on both sides of each of these boundaries
EdgeMarks == [BlockEdges -> {"Wall", "Checked", "Open"}]

\* the cells joined to the cells of S by boundaries marked Checked
RECURSIVE Walked(_, _)
Walked(mark, S) ==
    LET U == S \cup {e[2] : e \in {f \in DOMAIN mark : mark[f] = "Checked" /\ f[1] \in S}}
                \cup {e[1] : e \in {f \in DOMAIN mark : mark[f] = "Checked" /\ f[2] \in S}}
    IN  IF U = S THEN S ELSE Walked(mark, U)

\* update_map marks a boundary Checked when the player crosses it: every
\* such boundary lies on the walk that ends on the player's cell
WalkEndsAt(mark, player) ==
    \E walked \in {Walked(mark, {player})} :
        \A e \in DOMAIN mark : mark[e] = "Checked" => e[1] \in walked

\* the value of the side of a cell towards a neighbour cell
SideValue(mark, a, b) ==
    IF <<a, b>> \in DOMAIN mark THEN mark[<<a, b>>]
    ELSE IF <<b, a>> \in DOMAIN mark THEN mark[<<b, a>>]
    ELSE IF a \in BlockCells \/ b \in BlockCells THEN "Wall"
    ELSE "Undefined"

\* the map with these marks and the player flag on one explored cell
SearchMap(mark, player) ==
    [r \in 1..(SearchRows + 2) |-> [c \in 1..(SearchCols + 2) |->
        LET i == r - 1
            j == c - 1
        IN  [north |-> SideValue(mark, <<i, j>>, <<i - 1, j>>),
             east |-> SideValue(mark, <<i, j>>, <<i, j + 1>>),
             south |-> SideValue(mark, <<i, j>>, <<i + 1, j>>),
             west |-> SideValue(mark, <<i, j>>, <<i, j - 1>>),
             is_player_here |-> <<i, j>> = player]]]

MaxCorridor == 23   \* cells of the longest corridor of a map

\* the boundary between the cells k and k + 1 of a corridor walked from its
\* cell a to its cell b, with what the radar showed beyond both ends
CorridorEdge(a, b, lmark, rmark, k) ==
    IF k >= a /\ k < b THEN "Checked"
    ELSE IF k = a - 1 THEN lmark
    ELSE IF k = b THEN rmark
    ELSE "Undefined"

\* the map of a straight corridor from west to east, the player on one of
\* the cells walked
CorridorMap(a, b, player, lmark, rmark) ==
    [r \in 1..3 |-> [c \in 1..(MaxCorridor + 2) |->
        LET i == r - 1
            j == c - 1
            walked == i = 1 /\ j >= a /\ j <= b
        IN  [north |-> IF walked THEN "Wall" ELSE "Undefined",
             east |-> IF i = 1 THEN CorridorEdge(a, b, lmark, rmark, j) ELSE "Undefined",
             south |-> IF walked THEN "Wall" ELSE "Undefined",
             west |-> IF i = 1 THEN CorridorEdge(a, b, lmark, rmark, j - 1) ELSE "Undefined",
             is_player_here |-> i = 1 /\ j = player]]]

\* the side towards d of the cell (i, j) of a crossroads whose centre (2, 2)
\* holds the player: the four boundaries of the centre are marked on both
\* sides, the other sides of the five cells are walls
CrossSide(mark, i, j, d) ==
    IF <<i, j>> = <<2, 2>> THEN mark[d]
    ELSE IF <<i, j>> = <<1, 2>> THEN (IF d = "South" THEN mark["North"] ELSE "Wall")
    ELSE IF <<i, j>> = <<3, 2>> THEN (IF d = "North" THEN mark["South"] ELSE "Wall")
    ELSE IF <<i, j>> = <<2, 1>> THEN (IF d = "East" THEN mark["West"] ELSE "Wall")
    ELSE IF <<i, j>> = <<2, 3>> THEN (IF d = "West" THEN mark["East"] ELSE "Wall")
    ELSE "Undefined"

\* the map of a crossroads, the player on its centre
CrossMap(mark) ==
    [r \in 1..5 |-> [c \in 1..5 |->
        [north |-> CrossSide(mark, r - 1, c - 1, "North"),
         east |-> CrossSide(mark, r - 1, c - 1, "East"),
         south |-> CrossSide(mark, r - 1, c - 1, "South"),
         west |-> CrossSide(mark, r - 1, c - 1, "West"),
         is_player_here |-> <<r - 1, c - 1>> = <<2, 2>>]]]

\* the smart loop at the top of an iteration, some moves into the session
SearchInit ==
    /\ sLab = <<>> /\ sTeams = {} /\ sTokens = 0 /\ sPlayers = {} /\ sNextId = 0
    /\ sKey = NoneOpt /\ sPc = "idle" /\ sLast = <<>> /\ c2s = <<>> /\ s2c = <<>>
    /\ pPc = "loop" /\ pMode = "smart" /\ pView = <<>>
    /\ \/ \E mark \in EdgeMarks, player \in BlockCells :
            /\ WalkEndsAt(mark, player)
            /\ pMap = SearchMap(mark, player)
       \/ \E mark \in [MapDirections -> {"Wall", "Checked", "Open"}] :
            pMap = CrossMap(mark)
       \/ \E b \in 1..MaxCorridor :
            \E player \in 1..b, lmark \in {"Wall", "Open"}, rmark \in {"Wall", "Open"} :
                pMap = CorridorMap(1, b, player, lmark, rmark)
    /\ pNorthAt = "North" /\ pNext = "North" /\ pResp = NoneOpt
    /\ pSent = 1 /\ pThreads = 1

InitSearch == CodecIdle /\ MazeIdle /\ RadarIdle /\ SearchInit /\ AuxIdle

SpecSearch == InitSearch /\ [][SendMove]_vars

-----------------------------------------------------------------------------
(* Message framing with its log lines (server_utils.rs send_message and     *)
(* receive_message, logger.rs log_message).                                 *)

\* what a log_message call can meet: LOG_MAP never set, no file for the
\* category, a write that fails at the at-th call, or every write succeeding
LogStates ==
    {[kind |-> "uninitialised", at |-> 1], [kind |-> "no_file", at |-> 1],
     [kind |-> "ok", at |-> 0]}
        \cup {[kind |-> "write_fails", at |-> k] : k \in 1..4}

\* log_message at the n-th call of the caller
log_message(log, n) ==
    CASE log.kind = "uninitialised" -> "Err"
      [] log.kind = "no_file" -> "Err"
      [] log.kind = "write_fails" -> IF n >= log.at THEN "Err" ELSE "Ok"
      [] OTHER -> "Ok"

\* u32::to_le_bytes and u32::from_le_bytes
to_le_bytes(n) ==
    <<n % 256, (n \div 256) % 256, (n \div 65536) % 256, (n \div 16777216) % 256>>
from_le_bytes(b) == b[1] + 256 * b[2] + 65536 * b[3] + 16777216 * b[4]

\* serialized messages, as bytes
FrameTexts ==
    { <<>>, <<123, 125>>, <<123, 34, 70, 111, 117, 110, 100, 69, 120, 105, 116, 34, 58,
                           116, 114, 117, 101, 125>>,
      <<34, 79, 107, 34>> }

\* the writes of the stream that fail
StreamStates == {"ok", "length_fails", "payload_fails"}

\* send_message: each log_message call and each write ends the call with
\* its error
send_message(log, io, serialized_message) ==
    LET message_length == Len(serialized_message)
    IN  IF log_message(log, 1) = "Err" THEN [result |-> "Err", written |-> <<>>]
        ELSE IF log_message(log, 2) = "Err" THEN [result |-> "Err", written |-> <<>>]
        ELSE IF io = "length_fails" THEN [result |-> "Err", written |-> <<>>]
        ELSE IF log_message(log, 3) = "Err"
        THEN [result |-> "Err", written |-> to_le_bytes(message_length)]
        ELSE IF io = "payload_fails"
        THEN [result |-> "Err", written |-> to_le_bytes(message_length)]
        ELSE IF log_message(log, 4) = "Err"
        THEN [result |-> "Err",
              written |-> to_le_bytes(message_length) \o serialized_message]
        ELSE [result |-> "Ok",
              written |-> to_le_bytes(message_length) \o serialized_message]

\* String::from_utf8 on the bytes of the streams below: ASCII bytes and 255,
\* which no UTF-8 text holds
from_utf8_ok(bytes) == \A i \in 1..Len(bytes) : bytes[i] < 128

\* receive_message on the bytes the stream delivers before it closes
receive_message(log, stream) ==
    IF Len(stream) < 4 THEN [result |-> "Err", text |-> <<>>]
    ELSE LET message_length == from_le_bytes(SubSeq(stream, 1, 4))
             message_buffer == SubSeq(stream, 5, 4 + message_length)
         IN  IF log_message(log, 1) = "Err" THEN [result |-> "Err", text |-> <<>>]
             ELSE IF Len(stream) - 4 < message_length
             THEN [result |-> "Err", text |-> <<>>]
             ELSE IF ~from_utf8_ok(message_buffer) THEN [result |-> "Err", text |-> <<>>]
             ELSE [result |-> "Ok", text |-> message_buffer]

\* the streams a peer leaves: whole frames, a frame cut in its length or in
\* its payload, and a payload that is no UTF-8
FrameStreams ==
    {to_le_bytes(Len(t)) \o t : t \in FrameTexts}
        \cup {<<2, 0>>, <<4, 0, 0, 0, 123>>, <<1, 0, 0, 0, 255>>}

FramingInit ==
    /\ wPc = "call"
    /\ wLog \in LogStates
    /\ wCall \in {[op |-> "send", io |-> io, bytes |-> t] :
                     io \in StreamStates, t \in FrameTexts}
               \cup {[op |-> "receive", io |-> "ok", bytes |-> b] : b \in FrameStreams}
    /\ wOut = <<>>

SendMessage ==
    /\ wPc = "call" /\ wCall.op = "send"
    /\ wOut' = send_message(wLog, wCall.io, wCall.bytes)
    /\ wPc' = "done"
    /\ UNCHANGED <<wLog, wCall>>
    /\ UNCHANGED <<codecVars, mazeVars, radarVars, sessVars, lockVars, secretVars, connVars>>

ReceiveMessage ==
    /\ wPc = "call" /\ wCall.op = "receive"
    /\ wOut' = receive_message(wLog, wCall.bytes)
    /\ wPc' = "done"
    /\ UNCHANGED <<wLog, wCall>>
    /\ UNCHANGED <<codecVars, mazeVars, radarVars, sessVars, lockVars, secretVars, connVars>>

FramingNext == SendMessage \/ ReceiveMessage

InitFraming ==
    CodecIdle /\ MazeIdle /\ RadarIdle /\ SessIdle /\ LockIdle /\ SecretIdle /\ ConnIdle
        /\ FramingInit

SpecFraming == InitFraming /\ [][FramingNext]_vars

-----------------------------------------------------------------------------
(* The secrets of a client process: handle_hint of every player thread      *)
(* inserts into SECRET_MAP under its write lock, resolve_challenge reads it *)
(* under its read lock, which it keeps until it returns. SECRET_MAP is      *)
(* taken as initialised: without it resolve_challenge sends nothing.        *)

MaxHints == 3       \* handle_hint calls with a secret

SecretPlayers == {"p1", "p2", "p3"}
Resolver == "p1"
SecretValues == {5, 7}
Moduli == {0, 1, 3, 10}

\* u64::to_string
RECURSIVE DecimalText(_)
DecimalText(n) ==
    IF n < 10 THEN <<48 + n>> ELSE Append(DecimalText(n \div 10), 48 + (n % 10))

\* HashMap::insert
Insert(table, name, secret) == {e \in table : e[1] # name} \cup {<<name, secret>>}

\* a thread holds the read lock of SECRET_MAP
ReadLocked == hPc \in {"reading", "sent"}

SecretInit ==
    /\ hPc = "idle" /\ hTable = {} /\ hRead = <<>> /\ hAnswer = NoneOpt /\ hHints = 0

\* handle_hint of any player thread without the write lock
HandleHintUnlocked ==
    /\ hHints < MaxHints
    /\ \E name \in SecretPlayers, secret \in SecretValues :
          /\ (name = Resolver => hPc \in {"idle", "done"})
          /\ hTable' = Insert(hTable, name, secret)
    /\ hHints' = hHints + 1
    /\ UNCHANGED <<hPc, hRead, hAnswer>>
    /\ UNCHANGED <<codecVars, mazeVars, radarVars, sessVars, logVars, lockVars, connVars>>

\* handle_hint of any player thread for a hint with a secret; the resolver
\* itself is in handle_hint only outside resolve_challenge
HandleHint ==
    /\ hHints < MaxHints
    /\ ~ReadLocked
    /\ \E name \in SecretPlayers, secret \in SecretValues :
          /\ (name = Resolver => hPc \in {"idle", "done"})
          /\ hTable' = Insert(hTable, name, secret)
    /\ hHints' = hHints + 1
    /\ UNCHANGED <<hPc, hRead, hAnswer>>
    /\ UNCHANGED <<codecVars, mazeVars, radarVars, sessVars, logVars, lockVars, connVars>>

\* resolve_challenge up to the modulus it reads from the challenge
ReadModulus ==
    /\ hPc = "idle"
    /\ \E mod_val \in Moduli : hRead' = [mod_val |-> mod_val, todo |-> {}, sum |-> 0]
    /\ hPc' = "challenged"
    /\ UNCHANGED <<hTable, hAnswer, hHints>>
    /\ UNCHANGED <<codecVars, mazeVars, radarVars, sessVars, logVars, lockVars, connVars>>

\* map.read(): the iteration starts over the entries of the table
AcquireRead ==
    /\ hPc = "challenged"
    /\ hRead' = [hRead EXCEPT !.todo = {e[1] : e \in hTable}]
    /\ hPc' = "reading"
    /\ UNCHANGED <<hTable, hAnswer, hHints>>
    /\ UNCHANGED <<codecVars, mazeVars, radarVars, sessVars, logVars, lockVars, connVars>>

\* one entry of the iteration, in the order of the HashMap, goes into the sum
CollectSecret ==
    /\ hPc = "reading" /\ hRead.todo # {}
    /\ \E name \in hRead.todo :
          LET found == {e \in hTable : e[1] = name}
          IN  hRead' = [hRead EXCEPT
                          !.todo = @ \ {name},
                          !.sum = @ + (IF found = {} THEN 0
                                       ELSE (CHOOSE e \in found : TRUE)[2])]
    /\ UNCHANGED <<hPc, hTable, hAnswer, hHints>>
    /\ UNCHANGED <<codecVars, mazeVars, radarVars, sessVars, logVars, lockVars, connVars>>

\* the modulo, which panics for a modulus of 0, and the SolveChallenge sent
SendAnswer ==
    /\ hPc = "reading" /\ hRead.todo = {}
    /\ IF hRead.mod_val = 0
       THEN hPc' = "panicked" /\ hAnswer' = hAnswer
       ELSE hPc' = "sent" /\ hAnswer' = Some(DecimalText(hRead.sum % hRead.mod_val))
    /\ UNCHANGED <<hTable, hRead, hHints>>
    /\ UNCHANGED <<codecVars, mazeVars, radarVars, sessVars, logVars, lockVars, connVars>>

\* resolve_challenge returns and drops the read guard
ReturnFromChallenge ==
    /\ hPc = "sent"
    /\ hPc' = "done"
    /\ UNCHANGED <<hTable, hRead, hAnswer, hHints>>
    /\ UNCHANGED <<codecVars, mazeVars, radarVars, sessVars, logVars, lockVars, connVars>>

SecretNext ==
    \/ HandleHint
    \/ ReadModulus
    \/ AcquireRead
    \/ CollectSecret
    \/ SendAnswer
    \/ ReturnFromChallenge

InitSecret ==
    CodecIdle /\ MazeIdle /\ RadarIdle /\ SessIdle /\ LogIdle /\ LockIdle /\ ConnIdle
        /\ SecretInit

SpecSecret == InitSecret /\ [][SecretNext]_vars

-----------------------------------------------------------------------------
(* The locks of the server: every connection runs handle_client in a thread *)
(* of its own; the handlers lock the ServerState mutex, and every           *)
(* log_message call inside send_message and receive_message locks the       *)
(* LOG_MAP mutex for its duration. A thread is the sequence of lock         *)
(* operations its code still has to do.                                     *)

MaxConns == 2       \* connection threads
MaxRequests == 2    \* messages a connection thread handles

Conns == 1..MaxConns

\* log_message: LOG_MAP is locked, the line written, the guard dropped
LogOps == <<"lock_log", "unlock_log">>

\* receive_message: one log_message call
ReceiveOps == LogOps

\* send_message: four log_message calls
SendOps == LogOps \o LogOps \o LogOps \o LogOps

RECURSIVE Sends(_)
Sends(n) == IF n = 0 THEN <<>> ELSE SendOps \o Sends(n - 1)

\* handle_register_team: the guard lives until the function returns
RegisterTeamOps == <<"lock_state">> \o SendOps \o <<"unlock_state">>

\* the SubscribePlayer arm of handle_client, then handle_subscribe_player:
\* two messages for a known token, one for an unknown one, sent under the guard
SubscribePlayerOps(known) ==
    <<"lock_state", "unlock_state", "lock_state">>
        \o Sends(IF known THEN 2 ELSE 1) \o <<"unlock_state">>

\* handle_action: the search for the player when player_key is None, the
\* block that moves the player, then the responses, sent after the block
ActionOps(has_key, responses) ==
    (IF has_key THEN <<>> ELSE <<"lock_state", "unlock_state">>)
        \o <<"lock_state", "unlock_state">> \o Sends(responses)

\* the end of handle_client
CleanUpOps(has_key) == IF has_key THEN <<"lock_state", "unlock_state">> ELSE <<>>

LockInit ==
    /\ kPc = [t \in Conns |-> <<>>]
    /\ kReq = [t \in Conns |-> [handled |-> 0, has_key |-> FALSE, ended |-> FALSE]]
    /\ kState = 0
    /\ kLog = 0

\* the loop of handle_client takes the next message
Receive(t) ==
    /\ kPc[t] = <<>> /\ ~kReq[t].ended /\ kReq[t].handled < MaxRequests
    /\ \E message \in {"RegisterTeam", "SubscribePlayer", "MoveTo"},
          known \in BOOLEAN, responses \in 0..2 :
          /\ message # "SubscribePlayer" => known
          /\ message # "MoveTo" => responses = 0
          /\ kPc' = [kPc EXCEPT ![t] = ReceiveOps \o
                        (CASE message = "RegisterTeam" -> RegisterTeamOps
                           [] message = "SubscribePlayer" -> SubscribePlayerOps(known)
                           [] message = "MoveTo" ->
                                ActionOps(kReq[t].has_key, responses))]
          /\ kReq' = [kReq EXCEPT ![t].handled = @ + 1,
                                  ![t].has_key =
                                      @ \/ (message = "SubscribePlayer" /\ known)]
    /\ UNCHANGED <<kState, kLog>>
    /\ UNCHANGED <<codecVars, mazeVars, radarVars, sessVars, logVars, secretVars, connVars>>

\* receive_message fails on a closed stream and the loop is left
Disconnect(t) ==
    /\ kPc[t] = <<>> /\ ~kReq[t].ended
    /\ kPc' = [kPc EXCEPT ![t] = CleanUpOps(kReq[t].has_key)]
    /\ kReq' = [kReq EXCEPT ![t].ended = TRUE]
    /\ UNCHANGED <<kState, kLog>>
    /\ UNCHANGED <<codecVars, mazeVars, radarVars, sessVars, logVars, secretVars, connVars>>

\* state.lock(): the thread waits while a thread holds the mutex, itself
\* included
LockState(t) ==
    /\ kPc[t] # <<>> /\ Head(kPc[t]) = "lock_state"
    /\ kState = 0
    /\ kState' = t
    /\ kPc' = [kPc EXCEPT ![t] = Tail(@)]
    /\ UNCHANGED <<kReq, kLog>>
    /\ UNCHANGED <<codecVars, mazeVars, radarVars, sessVars, logVars, secretVars, connVars>>

UnlockState(t) ==
    /\ kPc[t] # <<>> /\ Head(kPc[t]) = "unlock_state"
    /\ kState' = 0
    /\ kPc' = [kPc EXCEPT ![t] = Tail(@)]
    /\ UNCHANGED <<kReq, kLog>>
    /\ UNCHANGED <<codecVars, mazeVars, radarVars, sessVars, logVars, secretVars, connVars>>

\* mutex_map.lock() of log_message
LockLog(t) ==
    /\ kPc[t] # <<>> /\ Head(kPc[t]) = "lock_log"
    /\ kLog = 0
    /\ kLog' = t
    /\ kPc' = [kPc EXCEPT ![t] = Tail(@)]
    /\ UNCHANGED <<kReq, kState>>
    /\ UNCHANGED <<codecVars, mazeVars, radarVars, sessVars, logVars, secretVars, connVars>>

UnlockLog(t) ==
    /\ kPc[t] # <<>> /\ Head(kPc[t]) = "unlock_log"
    /\ kLog' = 0
    /\ kPc' = [kPc EXCEPT ![t] = Tail(@)]
    /\ UNCHANGED <<kReq, kState>>
    /\ UNCHANGED <<codecVars, mazeVars, radarVars, sessVars, logVars, secretVars, connVars>>

LockNext ==
    \E t \in Conns :
        \/ Receive(t)
        \/ Disconnect(t)
        \/ LockState(t)
        \/ UnlockState(t)
        \/ LockLog(t)
        \/ UnlockLog(t)

InitLock ==
    CodecIdle /\ MazeIdle /\ RadarIdle /\ SessIdle /\ LogIdle /\ SecretIdle /\ ConnIdle
        /\ LockInit

SpecLock == InitLock /\ [][LockNext]_vars

-----------------------------------------------------------------------------
(* Claims about the symbol codec.                                           *)

\* C1: for every byte sequence b, of every length including 0 and the
\* lengths that are not multiples of 3, decode(encode(b)) returns Ok(b).
C1_RoundTrip == cPc = "roundtrip" => cResult = Ok(cInput)

\* a round trip of four bytes, the last chunk being a partial one
C1_Witness ==
    /\ cPc = "roundtrip" /\ Len(cInput) = 4 /\ cInput[4] = 255 /\ cInput[3] = 65
    /\ cResult.tag = "Ok"

\* a character of the 64-character alphabet of encode
InAlphabet(c) == \E i \in DOMAIN chars : chars[i] = c

BadPositions(t) == {i \in 1..Len(t) : ~InAlphabet(t[i])}

FirstBad(t) == t[CHOOSE i \in BadPositions(t) : \A j \in BadPositions(t) : i <= j]

\* C10: the outcome of decode is determined by the text: InvalidSize when its
\* length (str::len, the number of UTF-8 bytes) mod 4 is 1, even if it holds
\* characters outside the alphabet; otherwise UnauthorizedCharacter(c) for the
\* first character c outside the alphabet; otherwise Ok.  An error carries no
\* bytes, and InvalidSegmentSize is never returned.
C10_DecodeOutcome ==
    cPc \in {"decoded", "roundtrip"} =>
        /\ IF StrLen(cText) % 4 = 1
           THEN cResult = Err("InvalidSize", 0)
           ELSE IF BadPositions(cText) # {}
           THEN cResult = Err("UnauthorizedCharacter", FirstBad(cText))
           ELSE cResult.tag = "Ok"
        /\ cResult.tag # "Ok" => cResult.bytes = <<>>
        /\ cResult.tag # "InvalidSegmentSize"

\* a text of length 1 mod 4 with a character outside the alphabet has been
\* decoded
C10_Witness ==
    /\ cPc = "decoded"
    /\ StrLen(cText) % 4 = 1
    /\ BadPositions(cText) # {}
    /\ cResult.tag = "InvalidSize"

\* the number of characters for n bytes: four for every three bytes and two
\* or three for one or two bytes left over
EncodedLength(n) ==
    4 * (n \div 3) + (CASE n % 3 = 0 -> 0 [] n % 3 = 1 -> 2 [] n % 3 = 2 -> 3)

\* C11: for n bytes encode emits 4 * (n div 3) characters plus 0, 2 or 3 for
\* n mod 3 = 0, 1 or 2; every character is of the alphabet and none is '=';
\* the length mod 4 is never 1; the empty input gives the empty text.
C11_EncodeLength ==
    cPc \in {"encoded", "roundtrip"} =>
        /\ Len(cText) = EncodedLength(Len(cInput))
        /\ \A i \in 1..Len(cText) : InAlphabet(cText[i]) /\ cText[i] # 61
        /\ Len(cText) % 4 # 1
        /\ cInput = <<>> => cText = <<>>

\* four bytes have been encoded into six characters
C11_Witness ==
    /\ cPc = "encoded" /\ Len(cInput) = 4 /\ Len(cText) = 6
    /\ cInput[1] = 255 /\ cInput[4] = 1

\* the value of a character of the alphabet: its place in a-z, A-Z, 0-9, +, /
SymbolValue(c) == (CHOOSE i \in DOMAIN chars : chars[i] = c) - 1

\* symbol k (from 0) of the group that starts at g, zero when the text ends
\* before it
GroupSymbol(t, g, k) == IF g + k < Len(t) THEN SymbolValue(At(t, g + k)) ELSE 0

\* the four symbols of a group as one number of 24 bits
GroupNumber(t, g) ==
    GroupSymbol(t, g, 0) * 262144 + GroupSymbol(t, g, 1) * 4096
        + GroupSymbol(t, g, 2) * 64 + GroupSymbol(t, g, 3)

\* the bytes a group stands for: three for four characters, two for three,
\* one for two
GroupBytes(t, g) ==
    LET n == GroupNumber(t, g)
        all == <<n \div 65536, (n \div 256) % 256, n % 256>>
    IN  SubSeq(all, 1, Min(4, Len(t) - g) - 1)

RECURSIVE UnpackedFrom(_, _)
UnpackedFrom(t, g) ==
    IF g >= Len(t) THEN <<>> ELSE GroupBytes(t, g) \o UnpackedFrom(t, g + 4)

\* "Hello, World!"
HelloBytes == <<72, 101, 108, 108, 111, 44, 32, 87, 111, 114, 108, 100, 33>>

\* C12: for a text over the alphabet whose length mod 4 is 0, 2 or 3, decode
\* returns three bytes for every group of four characters and one or two for
\* a last group of two or three, the bytes being the symbols unpacked with
\* the missing symbols as zero; "aa" gives [0] and "sgvSBg8SifDVCMXKiq" the
\* bytes of "Hello, World!".
C12_DecodeBytes ==
    (cPc \in {"decoded", "roundtrip"} /\ BadPositions(cText) = {} /\ Len(cText) % 4 # 1)
    => /\ cResult = Ok(UnpackedFrom(cText, 0))
       /\ cText = <<97, 97>> => cResult.bytes = <<0>>
       /\ cText = HelloText => cResult.bytes = HelloBytes

\* the long text of the tests has been decoded
C12_Witness ==
    /\ cPc = "decoded" /\ cText = HelloText
    /\ cResult.tag = "Ok" /\ Len(cResult.bytes) = 13

-----------------------------------------------------------------------------
(* Claims about the maze generator.                                         *)

\* the cell next to c on side d
Toward(c, d) ==
    CASE d = "North" -> <<c[1], c[2] - 1>>
      [] d = "East" -> <<c[1] + 1, c[2]>>
      [] d = "South" -> <<c[1], c[2] + 1>>
      [] d = "West" -> <<c[1] - 1, c[2]>>

Opposite(d) ==
    CASE d = "North" -> "South" [] d = "East" -> "West"
      [] d = "South" -> "North" [] d = "West" -> "East"

WallOf(cell, d) ==
    CASE d = "North" -> cell.north_wall [] d = "East" -> cell.east_wall
      [] d = "South" -> cell.south_wall [] d = "West" -> cell.west_wall

AbsDirs == {"North", "East", "South", "West"}

\* the shared wall of c and its neighbour on side d has been removed
Removed(cells, c, d) ==
    /\ Toward(c, d) \in DOMAIN cells
    /\ ~WallOf(cells[c], d)
    /\ ~WallOf(cells[Toward(c, d)], Opposite(d))

RECURSIVE ReachFrom(_, _)
ReachFrom(cells, S) ==
    LET U == S \cup UNION {{Toward(c, d) : d \in {e \in AbsDirs : Removed(cells, c, e)}} : c \in S}
    IN  IF U = S THEN S ELSE ReachFrom(cells, U)

\* C3: in the maze generate_maze returns, every cell is reachable from the
\* start cell through removed walls.
C3_Connected ==
    gPc = "done" => ReachFrom(gCells, {gStart}) = Coords(gWidth, gHeight)

\* a 3 x 3 maze has been returned
C3_Witness ==
    /\ gPc = "done" /\ gWidth = 3 /\ gHeight = 3
    /\ Cardinality(ReachFrom(gCells, {gStart})) = 9

\* C9: in the maze generate_maze returns exactly one cell has has_exit, it is
\* the cell exit_position names, and it has no hint.
C9_ExitUnique ==
    gPc = "done" =>
        /\ {c \in DOMAIN gCells : gCells[c].has_exit} = {gExit}
        /\ ~gCells[gExit].has_hint

\* a returned maze with its exit away from the start and a hint somewhere
C9_Witness ==
    /\ gPc = "done" /\ gWidth = 3 /\ gHeight = 2
    /\ gExit # gStart /\ gCells[gExit].has_exit
    /\ \E c \in DOMAIN gCells : gCells[c].has_hint

-----------------------------------------------------------------------------
(* Claims about the radar frame and the view projector.                     *)

\* passage i (from 0) of a passage word in the layout of the wire format
PassageAt(word, i) == BoundaryOf(BitAnd(Shr(word, (11 - i) * 2), 3))

\* C2: the frame the server builds and the frame the client decodes carry the
\* same values at the same indices: horizontal passage i, vertical passage i,
\* cell i.
C2_FrameRoundTrip ==
    rPc = "parsed" =>
        /\ rClient.ok
        /\ \A i \in 0..11 :
             /\ At(rClient.horizontal_passages, i)
                  = PassageAt(rServer.horizontal_passages, i)
             /\ At(rClient.vertical_passages, i)
                  = PassageAt(rServer.vertical_passages, i)
        /\ \A i \in 0..8 : At(rClient.cells, i) = RadarCellOf(At(rServer.cell_values, i))

\* C7: the 3 x 3 labyrinth whose centre cell has all four walls, viewed from
\* the centre facing North, decodes to Wall in the slots of the centre cell's
\* walls, north and east among them.
C7_WalledCentre ==
    ( /\ rPc = "parsed"
      /\ rLab.width = 3 /\ rLab.height = 3
      /\ \A d \in MapDirections : HasWall(rLab.cells[<<1, 1>>], d)
      /\ rPos = <<1, 1>> /\ rDir = "North" )
    => /\ At(At(rClient.map, 1), 1).north = "Wall"
       /\ At(At(rClient.map, 1), 1).east = "Wall"

\* the cell of the labyrinth behind row r, column c of the 3 x 3 view, row 0
\* being the row in front of the player
ViewCell(pos, dir, r, c) ==
    LET f == MoveDelta(dir, "Front")
        rt == MoveDelta(dir, "Right")
    IN  <<pos[1] + (1 - r) * f.dx + (c - 1) * rt.dx,
          pos[2] + (1 - r) * f.dy + (c - 1) * rt.dy>>

\* the labyrinth has a wall on side d of the cell
LabWall(lab, cell, d) ==
    /\ cell \in DOMAIN lab.cells
    /\ HasWall(lab.cells[cell], d)

\* the labyrinth has a wall on the boundary horizontal slot r * 3 + c stands
\* for: above row r of the view, r = 3 being below row 2
HorizontalWall(lab, pos, dir, r, c) ==
    \/ LabWall(lab, ViewCell(pos, dir, r, c), dir)
    \/ LabWall(lab, ViewCell(pos, dir, r - 1, c), Opposite(dir))

\* the same for vertical slot r * 4 + c: left of column c, c = 3 being right of
\* column 2
VerticalWall(lab, pos, dir, r, c) ==
    \/ LabWall(lab, ViewCell(pos, dir, r, c), MoveDelta(dir, "Left").dir)
    \/ LabWall(lab, ViewCell(pos, dir, r, c - 1), MoveDelta(dir, "Right").dir)

\* C8: no passage slot is reported Open when the labyrinth has a wall on the
\* boundary the slot stands for, for all 24 slots of the view.
C8_NoOpenOnWall ==
    rPc = "parsed" =>
        /\ \A r \in 0..3, c \in 0..2 :
             HorizontalWall(rLab, rPos, rDir, r, c)
                => At(rClient.horizontal_passages, r * 3 + c) # "Open"
        /\ \A r \in 0..2, c \in 0..3 :
             VerticalWall(rLab, rPos, rDir, r, c)
                => At(rClient.vertical_passages, r * 4 + c) # "Open"

\* the 2-bit code at bits lo, lo + 1 of a word
TwoBitCode(word, lo) == (word \div (2 ^ lo)) % 4

\* the boundary named by a 2-bit code: 00 unknown, 01 open, 10 wall,
\* 11 invalid (Boundary::Undefined and Boundary::Error in the client)
CodeName(code) ==
    CASE code = 0 -> "Undefined" [] code = 1 -> "Open"
      [] code = 2 -> "Wall" [] code = 3 -> "Error"

\* (byte2 << 16) | (byte1 << 8) | byte0 of a 3-byte group
GroupWord(group) == group[3] * 65536 + group[2] * 256 + group[1]

\* the nibble at bits lo .. lo + 3 of the big-endian integer of the bytes,
\* for lo a multiple of 4: bit lo lies in the byte lo div 8 from the end
NibbleAt(bytes, lo) ==
    LET byte == bytes[Len(bytes) - (lo \div 8)]
    IN  (byte \div (2 ^ (lo % 8))) % 16

\* C13: for every 11-byte payload, boundary i of each 3-byte group is the
\* 2-bit code at bits (11-i)*2 .. (11-i)*2+1 of (byte2<<16)|(byte1<<8)|byte0,
\* with 00 unknown, 01 open, 10 wall, 11 invalid; cell i is the nibble at bits
\* (8-i)*4+4 .. (8-i)*4+7 of the big-endian 40-bit integer of the last five
\* bytes, and the nibble 1111 is an undefined cell with no item and no entity.
C13_FrameLayout ==
    rPc = "payload_parsed" =>
        LET h == SubSeq(rServer.data, 1, 3)
            v == SubSeq(rServer.data, 4, 6)
            c == SubSeq(rServer.data, 7, 11)
        IN  /\ rClient.ok
            /\ Len(rClient.horizontal_passages) = 12
            /\ Len(rClient.vertical_passages) = 12
            /\ Len(rClient.cells) = 9
            /\ \A i \in 0..11 :
                 /\ At(rClient.horizontal_passages, i)
                      = CodeName(TwoBitCode(GroupWord(h), (11 - i) * 2))
                 /\ At(rClient.vertical_passages, i)
                      = CodeName(TwoBitCode(GroupWord(v), (11 - i) * 2))
            /\ \A i \in 0..8 :
                 LET nibble == NibbleAt(c, (8 - i) * 4 + 4)
                 IN  /\ At(rClient.cells, i) = RadarCellOf(nibble)
                     /\ nibble = 15 =>
                          /\ At(rClient.cells, i).is_undefined
                          /\ At(rClient.cells, i).item = "None"
                          /\ At(rClient.cells, i).entity = "None"

\* a parsed payload with the four codes among its boundaries, an undefined
\* first cell and a defined second one
C13_Witness ==
    /\ rPc = "payload_parsed"
    /\ SubSeq(rServer.data, 1, 3) = <<27, 228, 114>>
    /\ rServer.data[7] = 244
    /\ At(rClient.horizontal_passages, 0) = "Open"
    /\ At(rClient.horizontal_passages, 1) = "Error"
    /\ At(rClient.horizontal_passages, 11) = "Error"
    /\ At(rClient.cells, 0).is_undefined
    /\ At(rClient.cells, 1).item = "Hint"

-----------------------------------------------------------------------------
(* Claims about the session.                                                *)

TurnRight(d) ==
    CASE d = "North" -> "East" [] d = "East" -> "South"
      [] d = "South" -> "West" [] d = "West" -> "North"

\* the absolute direction of a move relative to the direction faced: Front
\* is the direction faced, Back its opposite, Right a quarter turn clockwise
\* and Left a quarter turn counter-clockwise
AbsoluteDirection(facing, move_direction) ==
    CASE move_direction = "Front" -> facing
      [] move_direction = "Back" -> Opposite(facing)
      [] move_direction = "Right" -> TurnRight(facing)
      [] move_direction = "Left" -> Opposite(TurnRight(facing))

\* the position changed by the MoveTo handled last
Moved == sLast # <<>> /\ sLast.position # sLast.current_position

\* the wall flag of the current cell on the side of the move handled last
WallOnMoveSide ==
    HasWall(sLab.cells[sLast.current_position],
            AbsoluteDirection(sLast.current_direction, sLast.move_direction))

\* C4: no player passes through a wall: a MoveTo changes the position only to
\* the adjacent cell in the absolute direction of the move and only when the
\* wall flag of the current cell on that side is false; when the wall flag is
\* true the position is unchanged and CannotPassThroughWall is sent.
C4_NoWallPassing ==
    sLast # <<>> =>
        /\ Moved =>
              /\ sLast.position = Toward(sLast.current_position,
                        AbsoluteDirection(sLast.current_direction, sLast.move_direction))
              /\ ~WallOnMoveSide
        /\ WallOnMoveSide =>
              /\ sLast.position = sLast.current_position
              /\ sLast.hit_wall

\* a step in which a player loop sends a MoveTo
MoveSent == pSent' = pSent + 1

\* C5: whenever a player loop sends a MoveTo, it has read every message the
\* server sent in answer to the MoveTo before: no message of the server is
\* unread in the stream, in the fallback loop and in the smart loop.
C5_Pairing == [][MoveSent => s2c = <<>>]_vars

\* a player thread has ended in one of the three ways
ThreadEnded == pPc \in {"exited", "failed", "panicked"}

\* the message the player thread received last contains FoundExit
ReceivedFoundExit == pResp # NoneOpt /\ Contains(pResp[1], "FoundExit")

\* C6: a player loop returns Ok only after it received a message of the
\* server that contains FoundExit, every other way of leaving the loop is an
\* error result or a panic, and after the FoundExit no further move is sent.
C6_ExitOnlyOnFoundExit ==
    /\ [](pPc = "exited" => ReceivedFoundExit)
    /\ [](ThreadEnded /\ ~ReceivedFoundExit => pPc \in {"failed", "panicked"})
    /\ [][ReceivedFoundExit => pPc = "exited" /\ ~MoveSent]_vars

\* a player loop has returned Ok on the FoundExit the server sent for the
\* move that reached the exit
C6_Witness ==
    /\ pPc = "exited"
    /\ pResp = Some(PlainMsg("FoundExit"))
    /\ sLast # <<>> /\ sLast.found_exit /\ Moved

\* the smart player loop has parsed a response and called update_map
SmartUpdate ==
    pMode = "smart" /\ pPc \in {"waiting", "hinted"} /\ pPc' = "loop"

SideOf(d) ==
    CASE d = "North" -> "north" [] d = "East" -> "east"
      [] d = "South" -> "south" [] d = "West" -> "west"

Sides == {"north", "east", "south", "west"}

ThePlayerCell(map) == CHOOSE p \in PlayerCells(map, Rows(map), Cols(map)) : TRUE

\* the patch update_map was given for the response at the head of the stream
IncomingPatch(response, direction) ==
    rotate_map(parse_radar_response_smart(response).map, direction).map

\* C14: when update_map merges a patch into the persistent map, a field
\* changes only if it held Undefined, and then to the value of the patch at
\* its place; every field with a learned value keeps it, over every sequence
\* of frames. The two fields of the boundary between the cell the player
\* flag leaves and the cell it enters are set to Checked by the first loop
\* of update_map, before the merge, and are no patch writes.
C14_MergeKeepsLearned ==
    [][SmartUpdate =>
        LET from == ThePlayerCell(pMap)
            to == StepTo(from[1], from[2], pNext)
            here == ThePlayerCell(pMap')
            dr == IF pNext = "North" /\ Rows(pMap') > Rows(pMap) THEN 1 ELSE 0
            dc == IF pNext = "West" /\ Cols(pMap') > Cols(pMap) THEN 1 ELSE 0
            patch == IncomingPatch(Head(s2c), pNext)
        IN  \A r \in 0..(Rows(pMap) - 1), c \in 0..(Cols(pMap) - 1), f \in Sides :
                LET was == Cell(pMap, r, c)[f]
                    is == Cell(pMap', r + dr, c + dc)[f]
                    i == (r + dr) - here[1] + 1
                    j == (c + dc) - here[2] + 1
                IN  IF \/ <<r, c>> = from /\ f = SideOf(pNext)
                       \/ <<r, c>> = to /\ f = SideOf(Opposite(pNext))
                    THEN is = "Checked"
                    ELSE /\ was # "Undefined" => is = was
                         /\ is # was => InMap(patch, i, j) /\ is = Cell(patch, i, j)[f]
      ]_vars

\* after an update_map the player cell holds Checked on a side where the
\* patch merged last says Open: the learned value was kept
C14_Witness ==
    /\ pMode = "smart" /\ pPc = "loop" /\ pSent >= 2
    /\ pResp # NoneOpt /\ Contains(pResp[1], "RadarView")
    /\ LET here == ThePlayerCell(pMap)
           patch == IncomingPatch(pResp[1], pNext)
       IN  \E f \in Sides :
              /\ Cell(pMap, here[1], here[2])[f] = "Checked"
              /\ Cell(patch, 1, 1)[f] = "Open"

\* C15: after the initial frame and after every update_map call, whatever
\* directions were chosen, exactly one cell of the persistent map has
\* is_player_here, and it lies neither in the first or last row nor in the
\* first or last column.
C15_PlayerInterior ==
    (pMode = "smart" /\ pMap # <<>>) =>
        LET S == PlayerCells(pMap, Rows(pMap), Cols(pMap))
        IN  /\ Cardinality(S) = 1
            /\ \A p \in S : /\ p[1] >= 1 /\ p[1] <= Rows(pMap) - 2
                             /\ p[2] >= 1 /\ p[2] <= Cols(pMap) - 2

\* a map that update_map has grown by rows and by columns
C15_Witness ==
    /\ pMode = "smart" /\ pPc = "loop" /\ pSent >= 3
    /\ Rows(pMap) > 3 /\ Cols(pMap) > 3
    /\ ThePlayerCell(pMap) # <<1, 1>>

WallMsg == PlainMsg("CannotPassThroughWall")

\* the player loop takes CannotPassThroughWall as the answer to its move
ReceivesWall ==
    pPc \in {"waiting", "hinted"} /\ s2c # <<>> /\ Head(s2c) = WallMsg /\ pResp' = Some(WallMsg)

\* the player flag is on the cell it was on, wherever a new row or column
\* has put that cell
SameMapCell ==
    LET from == ThePlayerCell(pMap)
        dr == IF pNext = "North" /\ Rows(pMap') > Rows(pMap) THEN 1 ELSE 0
        dc == IF pNext = "West" /\ Cols(pMap') > Cols(pMap) THEN 1 ELSE 0
    IN  PlayerCells(pMap', Rows(pMap'), Cols(pMap')) = {<<from[1] + dr, from[2] + dc>>}

\* no panic in the iteration that takes the answer nor in the move decision
\* after it
C17_NoPanicAfterWall == [](pResp = Some(WallMsg) => pPc # "panicked")

\* the answer is consumed, the loop goes on and the player stays on its cell
C17_StaysOnCell ==
    [][ReceivesWall => pPc' = "loop" /\ (pMode = "smart" => SameMapCell)]_vars

\* C17: when the server answers a move with CannotPassThroughWall, the
\* player thread neither panics nor ends, the player stays on the map cell
\* it was on before the move, and the loop goes on with the next move
\* decision, in the fallback and in the smart navigator and for the four
\* directions.
C17_WallCollisionHandled == C17_NoPanicAfterWall /\ C17_StaysOnCell

PlayerKeys(players) == {p.key : p \in players}
RegisteredNames(teams) == {t.name : t \in teams}

\* handle_subscribe_player has found a team for the token and answered Ok
SubscribeSucceeds ==
    /\ sPc = "serving" /\ c2s # <<>> /\ Head(c2s).type = "SubscribePlayer"
    /\ TeamsWithToken(sTeams, Head(c2s).registration_token) # {}
    /\ Len(s2c') = Len(s2c) + 2
    /\ s2c'[Len(s2c) + 1] = PlainMsg("SubscribePlayerResultOk")

\* handle_client leaves its loop and returns
HandlerEnds == sPc = "serving" /\ sPc' = "idle"

-----------------------------------------------------------------------------
(* Claims about message framing and logging.                                *)

\* some log_message call of the caller fails
LogFails == wLog.kind # "ok"

\* C20: a failing log_message (LOG_MAP not initialised, no file for the
\* category, a write error) does not make the caller fail: send_message still
\* writes the length prefix and the payload and returns Ok, and
\* receive_message still returns the text received.
C20_BestEffortLogging ==
    (wPc = "done" /\ LogFails) =>
        /\ (wCall.op = "send" /\ wCall.io = "ok") =>
              /\ wOut.result = "Ok"
              /\ wOut.written = to_le_bytes(Len(wCall.bytes)) \o wCall.bytes
        /\ \A t \in FrameTexts :
              (wCall.op = "receive" /\ wCall.bytes = to_le_bytes(Len(t)) \o t) =>
                  wOut = [result |-> "Ok", text |-> t]

-----------------------------------------------------------------------------
(* Claims about the secrets.                                                *)

RECURSIVE SumOfSecret(_)
SumOfSecret(table) ==
    IF table = {} THEN 0
    ELSE LET e == CHOOSE x \in table : TRUE
         IN  e[2] + SumOfSecret(table \ {e})

\* one secret per player name
OnePerName(table) == \A e \in table, f \in table : e[1] = f[1] => e = f

\* C18: for a modulus m > 0 the answer resolve_challenge sends is the sum
\* of the secrets of the table, over all players of the process with the
\* resolver, modulo m, for the table of one instant: the one the thread
\* holds under its read lock when it sends, in which an insert of a sibling
\* is whole or absent and a player name has its latest secret only.
C18_ChallengeAnswer ==
    /\ OnePerName(hTable)
    /\ (hPc = "sent" /\ hRead.mod_val > 0) =>
          hAnswer = Some(DecimalText(SumOfSecret(hTable) % hRead.mod_val))

\* the resolver and a sibling have a secret each, one of them its second
\* one, and the answer for the modulus 10 is sent
C18_Witness ==
    /\ hPc = "sent" /\ hRead.mod_val = 10 /\ hHints = 3
    /\ hTable = {<<"p1", 5>>, <<"p2", 7>>}
    /\ hAnswer = Some(<<50>>)

-----------------------------------------------------------------------------
(* Claims about the locks of the server.                                    *)

\* no thread takes the LOG_MAP mutex while it holds the ServerState mutex
C16_NoSecondLock ==
    [][\A t \in Conns : (kLog' = t /\ kLog # t) => kState # t]_vars

\* no thread asks for the ServerState mutex while it holds it
C16_NoReacquire ==
    [](\A t \in Conns :
          (kPc[t] # <<>> /\ Head(kPc[t]) = "lock_state") => kState # t)

\* while a thread has something left to do, some thread can take a step
C16_NoDeadlock ==
    []((\E t \in Conns : kPc[t] # <<>> \/ ~kReq[t].ended) => ENABLED LockNext)

\* C16: a server thread never holds the ServerState mutex while it takes
\* another lock, the LOG_MAP mutex inside send_message included, and never
\* asks again for the ServerState mutex while it holds it; so no interleaving
\* of connection threads deadlocks.
C16_SingleLockDiscipline == C16_NoSecondLock /\ C16_NoReacquire /\ C16_NoDeadlock

-----------------------------------------------------------------------------
(* Claims about the rotation of the view.                                   *)

\* the bit offsets of the twelve 2-bit slots of a passage word
SlotOffsets == {2 * i : i \in 0..11}

\* the slot of a passage word is no longer the Open code the word starts with
Written(word, lo) == TwoBitCode(word, lo) # 1

\* the centre cell has a wall on the side that is move_direction of the player
SideWall(move_direction) ==
    LabWall(rLab, rPos, AbsoluteDirection(rDir, move_direction))

-----------------------------------------------------------------------------
(* Claims about the exit and the hints of the maze.                         *)

\* the cells one wall-less step away from a cell of S, with S itself
Expand(cells, S) ==
    S \cup UNION {{Toward(c, d) : d \in {e \in AbsDirs : Removed(cells, c, e)}} : c \in S}

\* the number of wall-less steps from the set S (k steps from the start) to
\* the cell c; -1 when c cannot be reached
RECURSIVE StepsFrom(_, _, _, _)
StepsFrom(cells, S, c, k) ==
    IF c \in S THEN k
    ELSE IF Expand(cells, S) = S THEN -1
    ELSE StepsFrom(cells, Expand(cells, S), c, k + 1)

Distance(c) == StepsFrom(gCells, {gStart}, c, 0)

\* the cells whose distance from the start is maximal
Farthest == {c \in DOMAIN gCells : \A o \in DOMAIN gCells : Distance(o) <= Distance(c)}

\* the place of a cell in the order in which find_farthest_point pops the cells
VisitIndex(c) ==
    LET order == Bfs(gCells, gStart, gWidth, gHeight).order
    IN  CHOOSE k \in 1..Len(order) : order[k] = c

\* C22 as stated: the exit is the last cell, in breadth-first visiting order,
\* among the cells whose distance from the start is maximal.
C22_ExitLastFarthest ==
    gPc \in {"hints", "done"} =>
        /\ gExit \in Farthest
        /\ \A c \in Farthest : VisitIndex(c) <= VisitIndex(gExit)

\* C22 amended: the exit is the first cell, in breadth-first visiting order,
\* among the cells whose distance from the start is maximal; so no cell is
\* farther from the start than the exit.
C22_ExitFirstFarthest ==
    gPc \in {"hints", "done"} =>
        /\ gExit \in Farthest
        /\ \A c \in Farthest : VisitIndex(gExit) <= VisitIndex(c)
        /\ \A c \in DOMAIN gCells : Distance(c) <= Distance(gExit)

\* a maze with several cells at the maximal distance, the exit placed on the
\* one visited first
C22_Witness ==
    /\ gPc = "done"
    /\ Cardinality(Farthest) >= 2
    /\ gExit \in Farthest
    /\ \E c \in Farthest : VisitIndex(gExit) < VisitIndex(c)

\* the cells of the maze that carry a hint
HintCells == {c \in DOMAIN gCells : gCells[c].has_hint}

\* C23: in every returned maze with at least two cells exactly
\* max(1, min(width, height) div 2) distinct cells have has_hint, and none of
\* them is the exit cell.
C23_HintCount ==
    (gPc = "done" /\ gWidth * gHeight >= 2) =>
        /\ Cardinality(HintCells)
             = (LET half == (IF gWidth < gHeight THEN gWidth ELSE gHeight) \div 2
                IN  IF half > 1 THEN half ELSE 1)
        /\ gExit \notin HintCells
        /\ gCells[gExit].has_exit

\* a returned 4 x 5 maze with its two hints, and a returned 1 x 2 maze with
\* its single one, are both covered: here the larger one
C23_Witness ==
    /\ gPc = "done" /\ gWidth = 4 /\ gHeight = 5
    /\ Cardinality(HintCells) = 2
    /\ gExit \notin HintCells

-----------------------------------------------------------------------------
(* Claims about the growth of the map and the orientation of the player.    *)

\* the smart player loop has sent a move and waits for the answer to it
MovePending == pMode = "smart" /\ pPc \in {"waiting", "hinted"} /\ pMap # <<>>

\* C24: over every sequence of update_map calls the map never loses a row or
\* a column; one call adds at most one row or one column, on the side of the
\* move (the player flag lands one cell towards the move, counted from the
\* shifted position of the cell it left), and only when the flag would
\* otherwise stand on that edge; and the growth step keeps every cell of the
\* map it is given, all four boundary values included, at its shifted
\* position.
C24_MapGrowth ==
    /\ [][(pMode = "smart" /\ pMap # <<>>) =>
            Rows(pMap') >= Rows(pMap) /\ Cols(pMap') >= Cols(pMap)]_vars
    /\ [][SmartUpdate =>
            LET from == ThePlayerCell(pMap)
                to == StepTo(from[1], from[2], pNext)
                here == ThePlayerCell(pMap')
                rows == Rows(pMap') - Rows(pMap)
                cols == Cols(pMap') - Cols(pMap)
            IN  /\ rows \in {0, 1} /\ cols \in {0, 1} /\ rows + cols <= 1
                /\ rows = 1 =>
                     \/ pNext = "North" /\ to[1] = 0 /\ here = <<to[1] + 1, to[2]>>
                     \/ pNext = "South" /\ to[1] = Rows(pMap) - 1 /\ here = to
                /\ cols = 1 =>
                     \/ pNext = "West" /\ to[2] = 0 /\ here = <<to[1], to[2] + 1>>
                     \/ pNext = "East" /\ to[2] = Cols(pMap) - 1 /\ here = to
                /\ (rows = 0 /\ cols = 0) => here = to
         ]_vars
    /\ [](MovePending =>
            LET from == ThePlayerCell(pMap)
                to == StepTo(from[1], from[2], pNext)
                marked == MarkMove(pMap, from[1], from[2], pNext)
                grown == Grow(marked, to[1], to[2], pNext)
                dr == IF pNext = "North" /\ Rows(grown) > Rows(marked) THEN 1 ELSE 0
                dc == IF pNext = "West" /\ Cols(grown) > Cols(marked) THEN 1 ELSE 0
            IN  /\ Rows(grown) + Cols(grown) <= Rows(marked) + Cols(marked) + 1
                /\ \A r \in 0..(Rows(marked) - 1), c \in 0..(Cols(marked) - 1) :
                      /\ InMap(grown, r + dr, c + dc)
                      /\ Cell(grown, r + dr, c + dc) = Cell(marked, r, c))

\* update_map has added a column on the west side and, in an earlier call, a
\* row: the player flag is in column 1 of a map wider and higher than 3
C24_Witness ==
    /\ pMode = "smart" /\ pPc = "loop" /\ pNext = "West"
    /\ Cols(pMap) > 3 /\ Rows(pMap) > 3
    /\ ThePlayerCell(pMap)[2] = 1

\* the smart player loop has decided on a move and sent it
SmartSend == pMode = "smart" /\ pPc = "loop" /\ pPc' = "waiting"

RelativeMoves == {"Front", "Right", "Back", "Left"}

\* C25: the relative action the smart loop sends for the absolute direction D
\* it chose is the one action for which calculate_next_north moves the tracker
\* from its value to D; so after every move decision the tracker equals the
\* direction just chosen.
C25_TrackerFollowsChoice ==
    /\ [][SmartSend =>
            /\ \E sent \in RelativeMoves :
                 /\ c2s'[Len(c2s')] = MoveToMsg(sent)
                 /\ calculate_next_north(pNorthAt, sent) = pNext'
                 /\ \A other \in RelativeMoves :
                      calculate_next_north(pNorthAt, other) = pNext' => other = sent
            /\ pNorthAt' = pNext'
         ]_vars
    /\ [](pMode = "smart" =>
            \A north_at \in MapDirections, chosen \in MapDirections :
                LET sent == RelativeDirection(north_at, chosen)
                IN  /\ sent \in RelativeMoves
                    /\ calculate_next_north(north_at, sent) = chosen
                    /\ \A other \in RelativeMoves :
                         calculate_next_north(north_at, other) = chosen => other = sent)

\* the tracker was at West when the loop chose North and sent Right
C25_Witness ==
    /\ pMode = "smart" /\ pPc = "waiting" /\ pSent >= 2
    /\ c2s # <<>> /\ c2s[Len(c2s)] = MoveToMsg("Right")
    /\ pNext = "North" /\ pNorthAt = "North"

\* calculate_next_north applied for each move of a sequence in turn
RECURSIVE Track(_, _)
Track(north_at, moves) ==
    IF moves = <<>> THEN north_at
    ELSE Track(calculate_next_north(north_at, Head(moves)), Tail(moves))

\* C26: from every tracked value four Rights return it, Left undoes Right and
\* Right undoes Left, two Backs return it, two Rights equal one Back and
\* Front leaves it unchanged; the tracker changes only when the smart loop
\* issues a move, and then to the value calculate_next_north gives for the
\* move issued, whatever the peer answers.
C26_TrackerRotations ==
    /\ [](pMode = "smart" =>
            \A v \in MapDirections :
                /\ Track(v, <<"Right", "Right", "Right", "Right">>) = v
                /\ Track(v, <<"Right", "Left">>) = v
                /\ Track(v, <<"Left", "Right">>) = v
                /\ Track(v, <<"Back", "Back">>) = v
                /\ Track(v, <<"Right", "Right">>) = Track(v, <<"Back">>)
                /\ Track(v, <<"Front">>) = v
                /\ Track(v, <<"Right">>) # v)
    /\ [][(pMode = "smart" /\ pNorthAt \in MapDirections) =>
            IF SmartSend
            THEN \E sent \in RelativeMoves :
                    /\ c2s'[Len(c2s')] = MoveToMsg(sent)
                    /\ pNorthAt' = calculate_next_north(pNorthAt, sent)
            ELSE pNorthAt' = pNorthAt
         ]_vars

\* the tracker has been turned from North to East by a Right, the answer to
\* which is still to come
C26_Witness ==
    /\ pMode = "smart" /\ pPc = "waiting" /\ pSent = 1
    /\ c2s # <<>> /\ c2s[Len(c2s)] = MoveToMsg("Right")
    /\ pNorthAt = "East"

-----------------------------------------------------------------------------
(* Claims about the right-hand navigator and the passages it reads.         *)

\* the order in which the right-hand navigator tries the directions
RightHandOrder == <<"Right", "Front", "Left", "Back">>

\* the passage of the latest view the navigator reads for a direction:
\* vertical 6 for Right, horizontal 4 for Front, vertical 5 for Left and
\* horizontal 7 for Back
CentrePassage(view, d) ==
    LET passages == IF d \in {"Right", "Left"} THEN view.vertical_passages
                    ELSE view.horizontal_passages
        index == CASE d = "Right" -> 6 [] d = "Front" -> 4
                   [] d = "Left" -> 5 [] d = "Back" -> 7
    IN  IF index < Len(passages) THEN At(passages, index) ELSE "Missing"

\* the right-hand player loop is at the top of an iteration and leaves it
FallbackDecision == pMode = "fallback" /\ pPc = "loop" /\ pPc' # "loop"

\* C27: in every iteration of the right-hand loop in which one of the four
\* passages around the centre cell of the latest view is Open, the action
\* sent is the first direction in the order Right, Front, Left, Back whose
\* passage is Open, whatever was sent in the iterations before.
C27_RightHandOrder ==
    [][(FallbackDecision /\ \E d \in RelativeMoves : CentrePassage(pView, d) = "Open") =>
        LET first == CHOOSE k \in 1..4 :
                        /\ CentrePassage(pView, RightHandOrder[k]) = "Open"
                        /\ \A j \in 1..(k - 1) :
                              CentrePassage(pView, RightHandOrder[j]) # "Open"
        IN  /\ pPc' = "waiting"
            /\ c2s' = Append(c2s, MoveToMsg(RightHandOrder[first]))
      ]_vars

\* the loop has sent Left on a view whose passages to the right and in front
\* are walls, after an iteration that sent something else
C27_Witness ==
    /\ pMode = "fallback" /\ pPc = "waiting" /\ pSent >= 2
    /\ c2s # <<>> /\ c2s[Len(c2s)] = MoveToMsg("Left")
    /\ CentrePassage(pView, "Right") = "Wall"
    /\ CentrePassage(pView, "Front") = "Wall"
    /\ CentrePassage(pView, "Left") = "Open"

\* the server, receiving MoveTo(d) from a player at the position and with
\* the facing of the view, answers CannotPassThroughWall
ServerBlocks(d) ==
    handle_action([key |-> <<>>, id |-> 0, name |-> None, team_name |-> None,
                   position |-> rPos, direction |-> rDir, moves |-> 0],
                  d, rLab).locals.hit_wall

\* C28: for every cell and facing of a labyrinth of the size the server
\* plays on and every relative direction d, is_direction_open(d) on the view
\* the client decodes is true exactly when the server does not answer
\* MoveTo(d) from that state with CannotPassThroughWall.
C28_OpenAgreement ==
    (rPc = "parsed" /\ rLab.width = ArenaSide /\ rLab.height = ArenaSide) =>
        \A d \in RelativeMoves :
            is_direction_open(d, rClient.horizontal_passages, rClient.vertical_passages)
                <=> ~ServerBlocks(d)

-----------------------------------------------------------------------------
(* Claims about the facing of the server and the tracker of the client.     *)

\* the quarter turns clockwise from North to a direction
QuarterTurns(d) ==
    CASE d = "North" -> 0 [] d = "East" -> 1 [] d = "South" -> 2 [] d = "West" -> 3

\* the quarter turns clockwise from the orientation the client tracks to the
\* facing the server stores
TurnsApart(facing, north_at) == (QuarterTurns(facing) - QuarterTurns(north_at) + 4) % 4

\* the player of the connection in the table of the server
ConnectedPlayers == {p \in sPlayers : sKey # NoneOpt /\ p.key = sKey[1]}

\* C29: when the server has handled every MoveTo the client sent, blocked by
\* a wall or not, the facing it stores for the player and the orientation the
\* client tracks are as many quarter turns apart as right after subscription.
C29_SameTurns ==
    (pMode = "smart" /\ pPc = "loop" /\ c2s = <<>>) =>
        \A p \in ConnectedPlayers :
            TurnsApart(p.direction, pNorthAt) = TurnsApart(StartDirection(p.id), "North")

-----------------------------------------------------------------------------
(* Claims about the move selection.                                         *)

\* a cell of the map has an Open boundary
HasOpen(map, c) ==
    \E d \in MapDirections : BoundaryOn(Cell(map, c[1], c[2]), d) = "Open"

\* the search may step from the cell c towards d
MayStep(map, c, d) ==
    /\ BoundaryOn(Cell(map, c[1], c[2]), d) \in {"Open", "Checked"}
    /\ InMap(map, StepTo(c[1], c[2], d)[1], StepTo(c[1], c[2], d)[2])

\* the least number of steps from a cell of S (k steps from where the search
\* began) to a cell with an Open boundary; -1 when there is none
RECURSIVE StepsToOpen(_, _, _)
StepsToOpen(map, S, k) ==
    IF \E c \in S : HasOpen(map, c) THEN k
    ELSE LET U == S \cup UNION {{StepTo(c[1], c[2], d) :
                                    d \in {e \in MapDirections : MayStep(map, c, e)}} :
                                  c \in S}
         IN  IF U = S THEN -1 ELSE StepsToOpen(map, U, k + 1)

\* the directions in the order of their priority
SearchPriority == <<"North", "West", "South", "East">>

\* the first steps of the shortest paths from the cell c to a cell with an
\* Open boundary d steps away
FirstSteps(map, c, d) ==
    {k \in 1..4 :
        /\ MayStep(map, c, SearchPriority[k])
        /\ StepsToOpen(map, {StepTo(c[1], c[2], SearchPriority[k])}, 0) = d - 1}

\* C30: when the player's cell has no Open boundary and a cell with an Open
\* boundary is d <= 20 steps away through boundaries marked Open or Checked,
\* find_closest_open returns d + 1 steps and the direction that comes first
\* in the order North, West, South, East among the first steps of the
\* shortest paths to such a cell; the smart loop moves that way.
C30_ShortestPath ==
    (pMode = "smart" /\ pPc \in {"loop", "waiting"} /\ pMap # <<>>) =>
        LET here == ThePlayerCell(pMap)
            d == StepsToOpen(pMap, {here}, 0)
            found == find_closest_open(pMap, <<>>, 0)
        IN  (~HasOpen(pMap, here) /\ d >= 1 /\ d <= 20) =>
                LET first == FirstSteps(pMap, here, d)
                    best == CHOOSE k \in first : \A j \in first : k <= j
                IN  /\ first # {}
                    /\ found.steps = d + 1
                    /\ found.direction = SearchPriority[best]
                    /\ pPc = "waiting" => pNext = found.direction

\* the loop has moved West from a cell without Open boundary whose
\* neighbours to the west, the south and the east all have one
C30_Witness ==
    /\ pMode = "smart" /\ pPc = "waiting"
    /\ pNext = "West"
    /\ LET here == ThePlayerCell(pMap)
       IN  /\ ~HasOpen(pMap, here)
           /\ StepsToOpen(pMap, {here}, 0) = 1
           /\ FirstSteps(pMap, here, 1) = {2, 3, 4}

-----------------------------------------------------------------------------
(* Claims about the results of the move selection.                          *)

\* the order of the first tests of the search
ImmediateOrder == <<"North", "East", "South", "West">>

\* the places in that order of the Open boundaries of a cell
OpenPlaces(map, c) ==
    {k \in 1..4 : BoundaryOn(Cell(map, c[1], c[2]), ImmediateOrder[k]) = "Open"}

\* C31: whenever a boundary of the player's cell is Open, find_closest_open
\* returns cost 1 and the first Open direction in the order North, East,
\* South, West; the smart loop moves that way.
C31_ImmediateOpen ==
    (pMode = "smart" /\ pPc \in {"loop", "waiting"} /\ pMap # <<>>) =>
        LET here == ThePlayerCell(pMap)
            places == OpenPlaces(pMap, here)
            found == find_closest_open(pMap, <<>>, 0)
        IN  places # {} =>
                LET first == CHOOSE k \in places : \A j \in places : k <= j
                IN  /\ found.steps = 1
                    /\ found.direction = ImmediateOrder[first]
                    /\ pPc = "waiting" => pNext = found.direction

\* the loop has moved East from a cell whose boundaries to the east, the
\* south and the west are Open and whose boundary to the north is not
C31_Witness ==
    /\ pMode = "smart" /\ pPc = "waiting"
    /\ pNext = "East"
    /\ OpenPlaces(pMap, ThePlayerCell(pMap)) = {2, 3, 4}

\* the directions find_closest_open may recurse into from the player's cell
\* at the top level
Recursable(map, c) == {d \in MapDirections : MayStep(map, c, d)}

\* no cell with an Open boundary is within the depth limit of the search
NoneWithinLimit(map, c) ==
    \E d \in {StepsToOpen(map, {c}, 0)} : d = -1 \/ d > 20

\* C32 as claimed: when no cell with an Open boundary can be reached within
\* the depth limit of 20, the top-level call of find_closest_open returns
\* the cost 999.
C32_SentinelCost ==
    (pMode = "smart" /\ pPc \in {"loop", "waiting"} /\ pMap # <<>>) =>
        (NoneWithinLimit(pMap, ThePlayerCell(pMap)) =>
            find_closest_open(pMap, <<>>, 0).steps = 999)

\* C32: when no cell with an Open boundary can be reached within the depth
\* limit of 20, the top-level call of find_closest_open returns the sentinel
\* 999 plus one for every level the cost is handed up through: 1000 when
\* one of the four directions cannot be recursed into (a direction not
\* recursed into counts 999 and wins), and from 1001 to 1020 when all four
\* can.
C32_SentinelPlusLevels ==
    (pMode = "smart" /\ pPc \in {"loop", "waiting"} /\ pMap # <<>>) =>
        LET here == ThePlayerCell(pMap)
            found == find_closest_open(pMap, <<>>, 0)
        IN  NoneWithinLimit(pMap, here) =>
                IF Recursable(pMap, here) # MapDirections
                THEN found.steps = 1000
                ELSE found.steps >= 1001 /\ found.steps <= 1020

\* the loop has moved from the centre of a crossroads whose four arms are
\* walked dead ends, and the search gave the cost 1001
C32_Witness ==
    /\ pMode = "smart" /\ pPc = "waiting"
    /\ Recursable(pMap, ThePlayerCell(pMap)) = MapDirections
    /\ NoneWithinLimit(pMap, ThePlayerCell(pMap))
    /\ find_closest_open(pMap, <<>>, 0).steps = 1001

\* C33: on every map the search ends; none of its calls is made into a cell
\* that is on the path handed down to it, none is deeper than 21, and a cost
\* below the sentinel is the distance to a cell with an Open boundary plus
\* one, never the length of a way back into the path.
C33_NoCycles ==
    (pMode = "smart" /\ pPc \in {"loop", "waiting"} /\ pMap # <<>>) =>
        LET here == ThePlayerCell(pMap)
            found == find_closest_open(pMap, <<>>, 0)
            calls == Calls(pMap, <<>>, 0)
        IN  /\ IsFiniteSet(calls)
            /\ \A c \in calls :
                /\ \A k \in 1..Len(c.previous_move) : c.previous_move[k] # c.at
                /\ \A j, k \in 1..Len(c.previous_move) :
                        j # k => c.previous_move[j] # c.previous_move[k]
                /\ c.how_deep = Len(c.previous_move)
                /\ c.how_deep <= 21
            /\ found.steps < 999 =>
                    StepsToOpen(pMap, {here}, 0) = found.steps - 1

\* the loop has moved from a cell of a ring of four walked cells, where the
\* search went round the ring and stopped on the fourth cell, whose next
\* boundary is walked and leads to the cell the search began on
C33_Witness ==
    /\ pMode = "smart" /\ pPc = "waiting"
    /\ \E c \in Calls(pMap, <<>>, 0) :
            /\ c.how_deep = 3
            /\ \E d \in MapDirections :
                /\ BoundaryOn(Cell(pMap, c.at[1], c.at[2]), d) = "Checked"
                /\ StepTo(c.at[1], c.at[2], d) = c.previous_move[1]

\* C34: the direction the top-level call of find_closest_open returns is one
\* whose boundary in the player's cell is Open or Checked, and the smart loop
\* moves across no other boundary.
C34_PassableDirection ==
    (pMode = "smart" /\ pPc \in {"loop", "waiting"} /\ pMap # <<>>) =>
        LET here == ThePlayerCell(pMap)
            found == find_closest_open(pMap, <<>>, 0)
        IN  /\ BoundaryOn(Cell(pMap, here[1], here[2]), found.direction)
                    \in {"Open", "Checked"}
            /\ pPc = "waiting" =>
                    BoundaryOn(Cell(pMap, here[1], here[2]), pNext)
                        \in {"Open", "Checked"}

-----------------------------------------------------------------------------
(* Claims about the positions of the players in mazes of any size.          *)

\* C35: whatever the width and height of the maze, the stored position of
\* every player is a cell of the maze from its subscription on and after any
\* sequence of MoveTo actions.
C35_PositionsInside ==
    \A p \in sPlayers :
        /\ p.position[1] >= 0 /\ p.position[1] < sLab.width
        /\ p.position[2] >= 0 /\ p.position[2] < sLab.height

\* the cell a MoveTo handled last aims at
MoveTarget ==
    Toward(sLast.current_position,
           AbsoluteDirection(sLast.current_direction, sLast.move_direction))

\* no wall flag separates the current cell from the cell the move aims at
Unobstructed ==
    LET d == AbsoluteDirection(sLast.current_direction, sLast.move_direction)
    IN  /\ MoveTarget \in DOMAIN sLab.cells
        /\ ~HasWall(sLab.cells[sLast.current_position], d)
        /\ ~HasWall(sLab.cells[MoveTarget], Opposite(d))

\* C36: whatever the size of the maze, a MoveTo whose target cell lies inside
\* the maze and is not separated from the current cell by a wall moves the
\* player to that target cell, so that every cell of the maze can be reached.
C36_UnobstructedMoves ==
    (sLast # <<>> /\ Unobstructed) => sLast.position = MoveTarget

-----------------------------------------------------------------------------
(* Claims about the structure of the maze and the end of its generation.    *)

\* the pairs of adjacent cells, as a cell and the side of its neighbour to
\* the east or to the south, with a wall flag cleared on either cell
OpenedPairs(cells) ==
    {p \in (DOMAIN cells) \X {"East", "South"} :
        /\ Toward(p[1], p[2]) \in DOMAIN cells
        /\ \/ ~WallOf(cells[p[1]], p[2])
           \/ ~WallOf(cells[Toward(p[1], p[2])], Opposite(p[2]))}

\* C37: in every maze generate_maze returns exactly width * height - 1 pairs
\* of adjacent cells have the wall between them removed, each such wall is
\* cleared on both cells, no wall of the outer border is removed, and no cell
\* is flagged visited.
C37_SpanningTree ==
    gPc = "done" =>
        /\ Cardinality(OpenedPairs(gCells)) = gWidth * gHeight - 1
        /\ \A c \in DOMAIN gCells :
            /\ \A d \in AbsDirs :
                IF Toward(c, d) \in DOMAIN gCells
                THEN WallOf(gCells[c], d) = WallOf(gCells[Toward(c, d)], Opposite(d))
                ELSE WallOf(gCells[c], d)
            /\ ~gCells[c].visited

\* a 3 x 3 maze has been returned with eight walls removed, one of them
\* between the centre and a cell of the border
C37_Witness ==
    /\ gPc = "done" /\ gWidth = 3 /\ gHeight = 3
    /\ Cardinality(OpenedPairs(gCells)) = 8
    /\ \E d \in AbsDirs : Removed(gCells, <<1, 1>>, d)
    /\ \A c \in DOMAIN gCells : ~gCells[c].visited

\* C38: for every width >= 1 and height >= 1 generate_maze returns a maze in
\* the end, the random draws being fair: the carving loop empties its stack
\* and the hint loop finds an admissible cell for each hint.
C38_Terminates == <>(gPc = "done")

-----------------------------------------------------------------------------
(* Claims about the rotation of a patch.                                    *)

\* a 3 x 3 patch turned by one clockwise quarter-turn: the cell of row i and
\* column j goes to row j and column 4 - i, and what was on its north side
\* is on its east side, east on south, south on west, west on north
QuarterTurn(patch) ==
    [a \in 1..3 |-> [b \in 1..3 |->
        LET old == patch[4 - b][a]
        IN  [north |-> old.west, east |-> old.north,
             south |-> old.east, west |-> old.south,
             is_player_here |-> old.is_player_here]]]

\* two adjacent cells of a patch hold the same value on their shared
\* boundary
SidesAgree(patch) ==
    /\ \A a \in 1..3, b \in 1..2 : patch[a][b].east = patch[a][b + 1].west
    /\ \A a \in 1..2, b \in 1..3 : patch[a][b].south = patch[a + 1][b].north

\* the patch after rotate_map
Rotated(patch, direction) == rotate_map(patch, direction).map

\* C39: rotate_map with North leaves a 3 x 3 patch as it is and with East,
\* South, West turns it by one, two, three clockwise quarter-turns, cells
\* and boundaries alike; East four times, East then West, and South twice
\* give the patch back; adjacent cells still agree on their shared boundary.
C39_RigidRotation ==
    pPc = "rotate" =>
        /\ \A d \in MapDirections : rotate_map(pMap, d).ok
        /\ Rotated(pMap, "North") = pMap
        /\ Rotated(pMap, "East") = QuarterTurn(pMap)
        /\ Rotated(pMap, "South") = QuarterTurn(QuarterTurn(pMap))
        /\ Rotated(pMap, "West") = QuarterTurn(QuarterTurn(QuarterTurn(pMap)))
        /\ Rotated(Rotated(Rotated(Rotated(pMap, "East"), "East"), "East"), "East") = pMap
        /\ Rotated(Rotated(pMap, "East"), "West") = pMap
        /\ Rotated(Rotated(pMap, "South"), "South") = pMap
        /\ SidesAgree(pMap)
        /\ \A d \in MapDirections : SidesAgree(Rotated(pMap, d))

\* a patch whose only wall was north of its centre has been rotated with
\* East: the wall is east of the centre, on both cells of that boundary
C39_Witness ==
    /\ pPc = "rotate" /\ pSent = 1 /\ pNext = "East"
    /\ pMap[2][2].east = "Wall" /\ pMap[2][3].west = "Wall"
    /\ pMap[2][2].north = "Open" /\ pMap[2][2].south = "Open"
    /\ pMap[2][2].west = "Open" /\ pMap[2][2].is_player_here

-----------------------------------------------------------------------------
(* Claims about the players table and the connections.                      *)

\* C40: once a connection has subscribed a player, the entry it stored stays
\* in the players table until that connection ends, whatever the other
\* connections subscribe and whenever they end.
C40_OwnEntry ==
    \A c \in DOMAIN nPc :
        (nPc[c] = "open" /\ nId[c] # NoneOpt) =>
            \E p \in sPlayers : p.key = nKey[c][1] /\ p.id = nId[c][1]

=============================================================================
